---- MODULE Spec2Model ----
(***************************************************************************)
(* Model of the import expansion engine of mdflow (src/src/imports.ts)     *)
(* and of the part of main() that calls it.                                *)
(*                                                                         *)
(* A text is a sequence of cells [c, o]: c is one character (a string of   *)
(* length one), o is a history tag that records where the character was    *)
(* written: 0 for a character that came out of a URL body or a command     *)
(* output, base+i for the i-th character of the top-level text or of a     *)
(* file.  The program only ever looks at c.  Paths, URLs, commands and     *)
(* header values are plain sequences of characters.  Positions in a text   *)
(* are counted from 1 (the program counts from 0).                         *)
(***************************************************************************)
EXTENDS Integers, Sequences, FiniteSets, TLC

\* ------------------------------------------------------------------------
\* Strings
\* ------------------------------------------------------------------------

\* F applied to the value of x: x is evaluated once, whatever F does with it
Once(x, F(_)) == CHOOSE r \in {F(v) : v \in {x}} : TRUE

\* the characters of a text
Chars(t) == Once(t, LAMBDA v : [i \in 1..Len(v) |-> v[i].c])

\* a text whose characters were written in a scanned source numbered base
Cells(s, base) == Once(s, LAMBDA v : [i \in 1..Len(v) |-> [c |-> v[i], o |-> base + i]])

\* a text that came from outside (URL body, command output)
Ext(s) == Once(s, LAMBDA v : [i \in 1..Len(v) |-> [c |-> v[i], o |-> 0]])

\* \s of the regular expressions, and the characters String.trim removes
IsWs(ch) == ch \in {" ", "\n", "\t"}

StartsWith(s, p) == Len(s) >= Len(p) /\ SubSeq(s, 1, Len(p)) = p

EndsWith(s, p) == Len(s) >= Len(p) /\ SubSeq(s, Len(s) - Len(p) + 1, Len(s)) = p

Includes(s, p) == \E i \in 1..(Len(s) - Len(p) + 1) : SubSeq(s, i, i + Len(p) - 1) = p

\* s has the literal p at position i
HasAt(s, i, p) == i >= 1 /\ i + Len(p) - 1 <= Len(s) /\ SubSeq(s, i, i + Len(p) - 1) = p

\* String.prototype.trim: from the first to the last character that is not
\* whitespace
Trim(s) ==
  Once(s, LAMBDA v :
    Once({i \in 1..Len(v) : ~IsWs(v[i])}, LAMBDA kept :
      IF kept = {} THEN <<>>
      ELSE SubSeq(v, CHOOSE i \in kept : \A j \in kept : i <= j,
                     CHOOSE i \in kept : \A j \in kept : i >= j)))

LowerChar(ch) ==
  CASE ch = "A" -> "a" [] ch = "E" -> "e" [] ch = "H" -> "h" [] ch = "I" -> "i"
    [] ch = "L" -> "l" [] ch = "M" -> "m" [] ch = "N" -> "n" [] ch = "P" -> "p"
    [] ch = "T" -> "t" [] ch = "X" -> "x" [] ch = "D" -> "d" [] ch = "J" -> "j"
    [] ch = "O" -> "o" [] ch = "S" -> "s"
    [] OTHER -> ch

\* String.prototype.toLowerCase
ToLowerCase(s) == Once(s, LAMBDA v : [i \in 1..Len(v) |-> LowerChar(v[i])])

\* the parts of s between the positions seps
Parts(s, seps) ==
  LET n == Cardinality(seps)
      cut(k) == IF k = 0 THEN 0
                ELSE IF k = n + 1 THEN Len(s) + 1
                ELSE CHOOSE i \in seps : Cardinality({j \in seps : j < i}) = k - 1 IN
  [k \in 1..(n + 1) |-> SubSeq(s, cut(k - 1) + 1, cut(k) - 1)]

\* s.split(sep): the parts between the separators
Split(s, sep) ==
  Once(s, LAMBDA v : Once({i \in 1..Len(v) : v[i] = sep}, LAMBDA seps : Parts(v, seps)))

\* s.split(sep)[0]: the part of s before the first sep
SplitFirst(s, sep) == Split(s, sep)[1]

\* a list that is left in the order of the scan
ReverseNot(s) == s

\* Array.prototype.reverse
Reverse(s) == Once(s, LAMBDA v : [i \in 1..Len(v) |-> v[Len(v) + 1 - i]])

\* ------------------------------------------------------------------------
\* Directive scanner: the three global regular expressions
\* ------------------------------------------------------------------------

\* [^\s]+ : last position of the run of non-whitespace starting at i (i-1: none)
RECURSIVE RunEnd(_, _)
RunEnd(s, i) == IF i > Len(s) \/ IsWs(s[i]) THEN i - 1 ELSE RunEnd(s, i + 1)

\* a pattern without the leading dot or slash: an at sign and any run of
\* non-whitespace
AnyAtPattern(s, i) ==
  IF s[i] = "@" /\ RunEnd(s, i + 1) >= i + 1 THEN <<i + 1, RunEnd(s, i + 1)>> ELSE <<>>

\* /@(~?[.\/][^\s]+)/ tried at position i: [from, to] of the capture, or <<>>
FILE_IMPORT_PATTERN(s, i) ==
  IF s[i] # "@" THEN <<>>
  ELSE LET j == IF i + 1 <= Len(s) /\ s[i + 1] = "~" THEN i + 2 ELSE i + 1 IN
       IF j <= Len(s) /\ s[j] \in {".", "/"} /\ RunEnd(s, j + 1) >= j + 1
       THEN <<i + 1, RunEnd(s, j + 1)>>
       ELSE <<>>

\* /@(https?:\/\/[^\s]+)/ tried at position i
URL_IMPORT_PATTERN(s, i) ==
  IF s[i] # "@" \/ ~HasAt(s, i + 1, <<"h", "t", "t", "p">>) THEN <<>>
  ELSE LET j == IF HasAt(s, i + 5, <<"s">>) THEN i + 6 ELSE i + 5 IN
       IF HasAt(s, j, <<":", "/", "/">>) /\ RunEnd(s, j + 3) >= j + 3
       THEN <<i + 1, RunEnd(s, j + 3)>>
       ELSE <<>>

\* the backtick character U+0060 (the lexer of TLA+ cannot read it in a string)
Tick == "BACKTICK"

\* position of the first backtick at or after i, 0 if none
RECURSIVE NextTick(_, _)
NextTick(s, i) == IF i > Len(s) THEN 0 ELSE IF s[i] = Tick THEN i ELSE NextTick(s, i + 1)

\* COMMAND_INLINE_PATTERN (bang, backtick, one or more non-backticks, backtick) tried at position i
COMMAND_INLINE_PATTERN(s, i) ==
  IF s[i] # "!" \/ ~HasAt(s, i + 1, <<Tick>>) THEN <<>>
  ELSE LET k == NextTick(s, i + 2) IN
       IF k > i + 2 THEN <<i + 2, k - 1>> ELSE <<>>

PatternAt(kind, s, i) ==
  CASE kind = "file" -> FILE_IMPORT_PATTERN(s, i)
    [] kind = "url"  -> URL_IMPORT_PATTERN(s, i)
    [] kind = "cmd"  -> COMMAND_INLINE_PATTERN(s, i)

\* last position of the whole match whose capture is cap
MatchEnd(kind, cap) == IF kind = "cmd" THEN cap[2] + 1 ELSE cap[2]

\* PATTERN.exec(text) with the cursor at pos, again and again until it yields
\* null: the matches from left to right.  index is the position of the first
\* character of the match (counted from 1), full its length, payload the
\* capture.
RECURSIVE ExecFrom(_, _, _)
ExecFrom(kind, s, pos) ==
  IF pos > Len(s) THEN <<>>
  ELSE Once(PatternAt(kind, s, pos), LAMBDA cap :
         IF cap = <<>> THEN ExecFrom(kind, s, pos + 1)
         ELSE <<[index |-> pos, full |-> MatchEnd(kind, cap) - pos + 1,
                 payload |-> SubSeq(s, cap[1], cap[2])]>>
              \o ExecFrom(kind, s, MatchEnd(kind, cap) + 1))

\* a pattern without the g flag: exec always finds the first match only
ExecFirst(kind, s) ==
  Once(ExecFrom(kind, s, 1), LAMBDA all : IF all = <<>> THEN <<>> ELSE <<all[1]>>)

\* PATTERN.lastIndex = 0 and the loop
\* "while ((match = PATTERN.exec(text)) !== null) list.push(...)"
ExecAll(kind, s) == Once(s, LAMBDA v : ExecFrom(kind, v, 1))

\* PATTERN.test(text) with the cursor at 0
Test(kind, s) == Once(s, LAMBDA v : \E i \in 1..Len(v) : PatternAt(kind, v, i) # <<>>)

\* hasImports
hasImports(s) == Once(s, LAMBDA v : Test("file", v) \/ Test("url", v) \/ Test("cmd", v))

\* ------------------------------------------------------------------------
\* Paths (node:path posix, node:os)
\* ------------------------------------------------------------------------

\* os.homedir()
homedir == <<"/", "h">>

\* process.cwd()
cwd == <<"/", "w">>

\* expandTilde; a path that starts with "~" has its first "~" at the front
expandTilde(filePath) ==
  IF StartsWith(filePath, <<"~", "/">>) \/ filePath = <<"~">>
  THEN homedir \o Tail(filePath)
  ELSE filePath

\* normalizeString of an absolute path: "" and "." are skipped, ".." removes
\* the last kept segment (nothing at the root)
\* (the segments from the i-th on are still to be read, acc are those kept)
RECURSIVE normalizeString(_, _, _)
normalizeString(parts, i, acc) ==
  IF i > Len(parts) THEN acc
  ELSE IF parts[i] = <<>> \/ parts[i] = <<".">> THEN normalizeString(parts, i + 1, acc)
  ELSE IF parts[i] = <<".", ".">>
       THEN normalizeString(parts, i + 1,
                            IF acc = <<>> THEN acc ELSE SubSeq(acc, 1, Len(acc) - 1))
       ELSE normalizeString(parts, i + 1, Append(acc, parts[i]))

\* the segments from the i-th on, each behind a "/"
RECURSIVE JoinAbs(_, _)
JoinAbs(parts, i) ==
  IF i > Len(parts) THEN <<>>
  ELSE <<"/">> \o parts[i] \o JoinAbs(parts, i + 1)

\* the absolute normal form of an absolute path (also what the file system
\* does with a path it is given)
NormAbs(path) ==
  Once(Split(path, "/"), LAMBDA segments :
    Once(normalizeString(segments, 1, <<>>), LAMBDA parts :
      IF parts = <<>> THEN <<"/">> ELSE JoinAbs(parts, 1)))

\* path.resolve(dir, rel) for a non-empty rel that is not absolute
resolve(dir, rel) ==
  IF StartsWith(dir, <<"/">>) THEN NormAbs(dir \o <<"/">> \o rel)
  ELSE IF dir = <<>> THEN NormAbs(cwd \o <<"/">> \o rel)
  ELSE NormAbs(cwd \o <<"/">> \o dir \o <<"/">> \o rel)

\* the loop of path.dirname: number of characters kept, -1 when no separator
\* is found
RECURSIVE dirnameEnd(_, _, _)
dirnameEnd(path, i, matchedSlash) ==
  IF i < 2 THEN -1
  ELSE IF path[i] = "/"
       THEN IF ~matchedSlash THEN i - 1 ELSE dirnameEnd(path, i - 1, matchedSlash)
       ELSE dirnameEnd(path, i - 1, FALSE)

\* path.dirname
dirname(path) ==
  IF path = <<>> THEN <<".">>
  ELSE LET hasRoot == path[1] = "/"
           end == dirnameEnd(path, Len(path), TRUE) IN
       IF end = -1 THEN (IF hasRoot THEN <<"/">> ELSE <<".">>)
       ELSE IF hasRoot /\ end = 1 THEN <<"/", "/">>
       ELSE SubSeq(path, 1, end)

\* resolveImportPath
resolveImportPath(importPath, currentFileDir) ==
  LET expanded == expandTilde(importPath) IN
  IF StartsWith(expanded, <<"/">>) THEN expanded
  ELSE resolve(currentFileDir, expanded)

\* ------------------------------------------------------------------------
\* Remote content gate
\* ------------------------------------------------------------------------

\* response.headers.get("content-type") when the header is absent
NULL == <<"NULL">>

S_text_markdown == <<"t","e","x","t","/","m","a","r","k","d","o","w","n">>
S_text_x_markdown == <<"t","e","x","t","/","x","-","m","a","r","k","d","o","w","n">>
S_text_plain == <<"t","e","x","t","/","p","l","a","i","n">>
S_application_json == <<"a","p","p","l","i","c","a","t","i","o","n","/","j","s","o","n">>
S_application_x_json == <<"a","p","p","l","i","c","a","t","i","o","n","/","x","-","j","s","o","n">>
S_text_json == <<"t","e","x","t","/","j","s","o","n">>

ALLOWED_CONTENT_TYPES ==
  {S_text_markdown, S_text_x_markdown, S_text_plain,
   S_application_json, S_application_x_json, S_text_json}

\* a value is falsy when it is null or the empty string
Falsy(v) == v = NULL \/ v = <<>>

\* a comparison of the whole header value with the list
isAllowedContentTypeExact(contentType) == contentType \in ALLOWED_CONTENT_TYPES

\* isAllowedContentType
isAllowedContentType(contentType) ==
  IF Falsy(contentType) THEN FALSE
  ELSE LET baseType == ToLowerCase(Trim(SplitFirst(contentType, ";"))) IN
       baseType \in ALLOWED_CONTENT_TYPES

IsDigit(ch) == ch \in {"0", "1", "2", "3", "4", "5", "6", "7", "8", "9"}

RECURSIVE JDigits(_, _)
JDigits(s, i) == IF i <= Len(s) /\ IsDigit(s[i]) THEN JDigits(s, i + 1) ELSE i

\* position of the first double quote at or after i, 0 if none
RECURSIVE JQuote(_, _)
JQuote(s, i) == IF i > Len(s) THEN 0 ELSE IF s[i] = "\"" THEN i ELSE JQuote(s, i + 1)

\* a JSON string at i: the position behind it, 0 if there is none
JString(s, i) ==
  IF i <= Len(s) /\ s[i] = "\"" /\ JQuote(s, i + 1) # 0 THEN JQuote(s, i + 1) + 1 ELSE 0

\* JSON.parse for the JSON without blanks, escapes, signs, fractions and
\* literals: a value at i, the position behind it, 0 if there is none
RECURSIVE JValue(_, _)
RECURSIVE JElements(_, _)
RECURSIVE JMembers(_, _)
JValue(s, i) ==
  IF i > Len(s) THEN 0
  ELSE IF IsDigit(s[i]) THEN JDigits(s, i)
  ELSE IF s[i] = "\"" THEN JString(s, i)
  ELSE IF s[i] = "[" THEN (IF HasAt(s, i + 1, <<"]">>) THEN i + 2 ELSE JElements(s, i + 1))
  ELSE IF s[i] = "{" THEN (IF HasAt(s, i + 1, <<"}">>) THEN i + 2 ELSE JMembers(s, i + 1))
  ELSE 0

JElements(s, i) ==
  LET v == JValue(s, i) IN
  IF v = 0 \/ v > Len(s) THEN 0
  ELSE IF s[v] = "," THEN JElements(s, v + 1)
  ELSE IF s[v] = "]" THEN v + 1
  ELSE 0

JMembers(s, i) ==
  LET k == JString(s, i) IN
  IF k = 0 \/ ~HasAt(s, k, <<":">>) THEN 0
  ELSE LET v == JValue(s, k + 1) IN
       IF v = 0 \/ v > Len(s) THEN 0
       ELSE IF s[v] = "," THEN JMembers(s, v + 1)
       ELSE IF s[v] = "}" THEN v + 1
       ELSE 0

\* JSON.parse(s) does not throw
JSONparse(s) == JValue(s, 1) = Len(s) + 1

\* inferContentType
inferContentType(content, url) ==
  Once(Trim(content), LAMBDA trimmed : Once(ToLowerCase(url), LAMBDA urlLower :
  IF /\ \/ StartsWith(trimmed, <<"{">>) /\ EndsWith(trimmed, <<"}">>)
        \/ StartsWith(trimmed, <<"[">>) /\ EndsWith(trimmed, <<"]">>)
     /\ JSONparse(trimmed)
  THEN "json"
  ELSE IF EndsWith(urlLower, <<".", "m", "d">>)
          \/ EndsWith(urlLower, <<".", "m", "a", "r", "k", "d", "o", "w", "n">>)
  THEN "markdown"
  ELSE IF EndsWith(urlLower, <<".", "j", "s", "o", "n">>)
  THEN "json"
  ELSE IF \/ StartsWith(trimmed, <<"#">>)
          \/ Includes(trimmed, <<"\n", "#">>)
          \/ Includes(trimmed, <<"\n", "-", " ">>)
          \/ Includes(trimmed, <<"\n", "*", " ">>)
          \/ Includes(trimmed, <<Tick, Tick, Tick>>)
  THEN "markdown"
  ELSE "unknown"))

\* ------------------------------------------------------------------------
\* The environment: files, responses of the network, results of commands
\* ------------------------------------------------------------------------

\* "x".repeat(100_000) of the threshold tests: one character of the model
\* stands for the whole run
RunOfX == "x.repeat(100000)"

RunLength == 100000

\* the files on disk: absolute path and content
FS ==
  <<[path |-> <<"/", "d", "/", "a">>, content |-> <<"@", ".", "/", "b">>],
    [path |-> <<"/", "d", "/", "b">>, content |-> <<"@", ".", "/", "a">>],
    [path |-> <<"/", "d", "/", "s">>, content |-> <<"h", "i">>],
    [path |-> <<"/", "d", "/", "n">>, content |-> <<"x", " ", "@", ".", "/", "s", " ", "y">>],
    [path |-> <<"/", "d", "/", "i">>, content |-> <<"@", ".", "/", "i">>],
    [path |-> <<"/", "d", "/", "x">>, content |-> <<"@", ".", "/", "y">>],
    [path |-> <<"/", "d", "/", "y">>, content |-> <<"@", ".", "/", "z">>],
    [path |-> <<"/", "d", "/", "z">>, content |-> <<"@", ".", "/", "x">>],
    [path |-> <<"/", "d", "/", "t", "/", "e">>, content |-> <<"@", ".", "/", "f", " ", "!", Tick, "c", Tick>>],
    [path |-> <<"/", "d", "/", "t", "/", "f">>, content |-> <<"i", "n">>],
    [path |-> <<"/", "d", "/", "t", "/", "u">>, content |-> <<"@", ".", ".", "/", "s">>],
    [path |-> <<"/", "d", "/", "l">>, content |-> <<"@", "/", "d", "/", ".", "/", "l">>],
    [path |-> <<"/", "d", "/", "p">>, content |-> <<"@", ".", "/", "s">>],
    [path |-> <<"/", "d", "/", "q">>, content |-> <<"@", ".", "/", "s">>],
    [path |-> <<"/", "d", "/", "g">>, content |-> <<".", "/", "s">>],
    [path |-> <<"/", "h", "/", "s">>, content |-> <<"h", "o", "m", "e">>],
    [path |-> <<"/", "d", "/", "k">>, content |-> <<"!", Tick, "c", Tick>>],
    [path |-> <<"/", "d", "/", "w">>, content |-> <<"@", "h", "t", "t", "p", ":", "/", "/", "u">>],
    [path |-> <<"/", "w", "/", "r", "/", "s">>, content |-> <<"r", "e", "l">>],
    [path |-> <<"/", "d", "/", "v", "/", "a">>, content |-> <<RunOfX>>],
    [path |-> <<"/", "d", "/", "v", "/", "b">>, content |-> <<RunOfX>>],
    [path |-> <<"/", "d", "/", "e", "/", "a">>, content |-> <<RunOfX, RunOfX>>],
    [path |-> <<"/", "d", "/", "e", "/", "b">>, content |-> <<RunOfX, RunOfX>>],
    [path |-> <<"/", "d", "/", "o", "/", "a">>, content |-> <<"A">>],
    [path |-> <<"/", "d", "/", "o", "/", "b">>, content |-> <<"@", ".", ".", "/", "s">>],
    [path |-> <<"/", "d", "/", "o", "/", "c">>, content |-> <<"C">>],
    [path |-> <<"/", "d", "/", "c", "/", "a">>, content |-> <<"@", ".", "/", "*">>],
    [path |-> <<"/", "d", "/", "c", "/", "b">>, content |-> <<"z">>],
    [path |-> <<"/", "d", "/", "j">>, content |-> <<"j", "@", "k", ".", "l">>] >>

\* Bun.file(path).exists(): the file system resolves the path it is given
FileIndex(path) ==
  Once(NormAbs(path), LAMBDA p :
    IF \E k \in 1..Len(FS) : FS[k].path = p
    THEN CHOOSE k \in 1..Len(FS) : FS[k].path = p
    ELSE 0)

\* history tags: the top-level text is source 1, the k-th file source k+1
OriginBase(k) == 100 * (k + 1)

\* Bun.file(path).text()
FileText(path) ==
  Once(FileIndex(path), LAMBDA k : Cells(FS[k].content, OriginBase(k)))

CT_html == <<"t", "e", "x", "t", "/", "h", "t", "m", "l">>
CT_plain_params == <<"T", "e", "x", "t", "/", "P", "l", "a", "i", "n", ";", " ", "c", "h", "a", "r", "s", "e", "t", "=", "u", "t", "f", "-", "8">>
CT_octet == <<"a", "p", "p", "l", "i", "c", "a", "t", "i", "o", "n", "/", "o", "c", "t", "e", "t", "-", "s", "t", "r", "e", "a", "m">>

\* what a server may answer: the status, whether the status text holds the
\* words "unsupported content type", the Content-Type header and the body;
\* net = FALSE when fetch itself or the reading of the body throws
ContentTypes == {NULL, <<>>, CT_html, CT_plain_params, S_application_json, CT_octet}

Bodies == {<<"<", "p", ">">>, <<"#", "h">>, <<"{", "}">>, <<"{", "x", "}">>, <<" ", "!", Tick, "c", Tick, " ">>, <<"@", ".", "/", "s">>}

Responses ==
  [net : {TRUE}, status : {200}, phrase : {FALSE}, contentType : ContentTypes, body : Bodies]
  \cup [net : {TRUE}, status : {404}, phrase : BOOLEAN, contentType : ContentTypes, body : Bodies]
  \cup [net : {FALSE}, status : {0}, phrase : {FALSE}, contentType : {NULL}, body : {<<>>}]

\* what Bun.spawnSync may yield: launch = FALSE when it throws
Stdouts == {<<>>, <<"o", "\n">>, <<"@", ".", "/", "s">>, <<"!", Tick, "c", Tick>>}

Stderrs == {<<>>, <<"e">>, <<" ">>}

SpawnResults ==
  [launch : {TRUE}, stdout : Stdouts, stderr : Stderrs, exitCode : {0, 1}]
  \cup [launch : {FALSE}, stdout : {<<>>}, stderr : {<<>>}, exitCode : {0}]


\* the longest text of the exhaustive scan
MaxScan == 4

\* the characters of the exhaustive scan: what may follow an at sign
ScanAlphabet == {"@", "~", ".", "/", "a", " "}

\* every text of at most MaxScan of these characters
ScanTexts == UNION {[1..n -> ScanAlphabet] : n \in 1..MaxScan}

\* expandImports called on each of them in the directory /d
ScanScenarios ==
  {[mode |-> "api", text |-> t, where |-> <<"/", "d">>, stack |-> <<>>] : t \in ScanTexts}

\* the calls that are explored: expandImports called directly with a text, a
\* directory and a stack ("api"), or main() run on an agent file whose body is
\* the text ("main"; where is then the path of the agent file)
PickedScenarios ==
  { [mode |-> "api", text |-> <<"@", ".", "/", "a">>, where |-> <<"/", "d">>, stack |-> <<<<"/", "d", "/", "s">>>>],
    [mode |-> "api", text |-> <<"a", "@", "b", ".", "c", " ", "@", "h", "t", "t", "p", ":", "/", "/", "u">>, where |-> <<"/", "d">>, stack |-> <<>>],
    [mode |-> "api", text |-> <<"a", "@", "b", " ", "@", ".", "/", "j">>, where |-> <<"/", "d">>, stack |-> <<>>],
    [mode |-> "api", text |-> <<"@", ".", "/", "a">>, where |-> <<"/", "d">>, stack |-> <<>>],
    [mode |-> "api", text |-> <<"@", ".", "/", "i">>, where |-> <<"/", "d">>, stack |-> <<>>],
    [mode |-> "api", text |-> <<"@", ".", "/", "x">>, where |-> <<"/", "d">>, stack |-> <<>>],
    [mode |-> "api", text |-> <<"@", ".", "/", "n">>, where |-> <<"/", "d">>, stack |-> <<>>],
    [mode |-> "api", text |-> <<"@", ".", "/", "s", " ", "@", ".", "/", "s">>, where |-> <<"/", "d">>, stack |-> <<>>],
    [mode |-> "api", text |-> <<"@", ".", "/", "p", " ", "@", ".", "/", "q">>, where |-> <<"/", "d">>, stack |-> <<>>],
    [mode |-> "api", text |-> <<"@", ".", "/", "t", "/", "e">>, where |-> <<"/", "d">>, stack |-> <<>>],
    [mode |-> "api", text |-> <<"@", ".", "/", "t", "/", "u">>, where |-> <<"/", "d">>, stack |-> <<>>],
    [mode |-> "api", text |-> <<"@", ".", "/", "l">>, where |-> <<"/", "d">>, stack |-> <<>>],
    [mode |-> "api", text |-> <<"a", "@", "b", " ", "c">>, where |-> <<"/", "d">>, stack |-> <<>>],
    [mode |-> "api", text |-> <<"h", "i">>, where |-> <<"/", "d">>, stack |-> <<>>],
    [mode |-> "api", text |-> <<"@", "~", "/", "s">>, where |-> <<"/", "d">>, stack |-> <<>>],
    [mode |-> "api", text |-> <<"@", ".", "/", "m">>, where |-> <<"/", "d">>, stack |-> <<>>],
    [mode |-> "api", text |-> <<"@", "@", ".", "/", "g">>, where |-> <<"/", "d">>, stack |-> <<>>],
    [mode |-> "api", text |-> <<"@", "h", "t", "t", "p", ":", "/", "/", "u">>, where |-> <<"/", "d">>, stack |-> <<>>],
    [mode |-> "api", text |-> <<"@", "h", "t", "t", "p", ":", "/", "/", "u", ".", "m", "d">>, where |-> <<"/", "d">>, stack |-> <<>>],
    [mode |-> "api", text |-> <<"!", Tick, "c", Tick>>, where |-> <<"/", "d">>, stack |-> <<>>],
    [mode |-> "api", text |-> <<"!", Tick, "a", Tick, " ", "!", Tick, "b", Tick>>, where |-> <<"/", "d">>, stack |-> <<>>],
    [mode |-> "api", text |-> <<"@", ".", "/", "o", "/", "*">>, where |-> <<"/", "d">>, stack |-> <<>>],
    [mode |-> "api", text |-> <<"@", ".", "/", "c", "/", "*">>, where |-> <<"/", "d">>, stack |-> <<>>],
    [mode |-> "api", text |-> <<"@", ".", "/", "v", "/", "*", " ", "!", Tick, "c", Tick>>, where |-> <<"/", "d">>, stack |-> <<>>],
    [mode |-> "api", text |-> <<"@", ".", "/", "e", "/", "*", " ", "!", Tick, "c", Tick>>, where |-> <<"/", "d">>, stack |-> <<>>],
    [mode |-> "api", text |-> <<"@", ".", "/", "v", "/", "a", " ", "@", ".", "/", "v", "/", "b", " ", "@", ".", "/", "e", "/", "a">>, where |-> <<"/", "d">>, stack |-> <<>>],
    [mode |-> "api", text |-> <<"@", ".", "/", "e", "/", "a", " ", "@", ".", "/", "e", "/", "b", " ", "@", ".", "/", "v", "/", "a">>, where |-> <<"/", "d">>, stack |-> <<>>],
    [mode |-> "api", text |-> <<"@", ".", "/", "e", "/", "*", " ", "@", "h", "t", "t", "p", ":", "/", "/", "u">>, where |-> <<"/", "d">>, stack |-> <<>>],
    [mode |-> "main", text |-> <<"@", ".", "/", "e", "/", "a", " ", "@", ".", "/", "e", "/", "b", " ", "@", ".", "/", "v", "/", "a">>, where |-> <<"/", "d", "/", "m">>, stack |-> <<>>],
    [mode |-> "api", text |-> <<"@", ".", "/", "k">>, where |-> <<"/", "d">>, stack |-> <<>>],
    [mode |-> "api", text |-> <<"@", ".", "/", "w">>, where |-> <<"/", "d">>, stack |-> <<>>],
    [mode |-> "api", text |-> <<"@", ".", "/", "s", " ", "@", "h", "t", "t", "p", ":", "/", "/", "u", " ", "!", Tick, "c", Tick>>, where |-> <<"/", "d">>, stack |-> <<>>],
    [mode |-> "api", text |-> <<"@", ".", "/", "m", " ", "@", ".", "/", "k">>, where |-> <<"/", "d">>, stack |-> <<>>],
    [mode |-> "api", text |-> <<"@", ".", "/", "k", " ", "@", ".", "/", "m">>, where |-> <<"/", "d">>, stack |-> <<>>],
    [mode |-> "api", text |-> <<"@", ".", "/", "m", " ", "@", ".", "/", "r", " ", "@", ".", "/", "k">>, where |-> <<"/", "d">>, stack |-> <<>>],
    [mode |-> "api", text |-> <<"@", ".", "/", "s", " ", "@", ".", "/", "k", " ", "!", Tick, "b", Tick>>, where |-> <<"/", "d">>, stack |-> <<>>],
    [mode |-> "api", text |-> <<"@", ".", "/", "s">>, where |-> <<"r">>, stack |-> <<>>],
    [mode |-> "api", text |-> <<"h", "i">>, where |-> <<"/", "d">>, stack |-> <<<<"/", "d", "/", "s">>>>],
    [mode |-> "api", text |-> <<"@", ".", "/", "s">>, where |-> <<"/", "d">>, stack |-> <<<<"/", "d", "/", "s">>>>],
    [mode |-> "api", text |-> <<"@", ".", "/", "n">>, where |-> <<"/", "d">>, stack |-> <<<<"/", "d", "/", "x">>>>],
    [mode |-> "api", text |-> <<"a", "@", "b", " ", "c">>, where |-> <<"r">>, stack |-> <<<<"/", "d", "/", "s">>>>],
    [mode |-> "main", text |-> <<"@", ".", "/", "n">>, where |-> <<"/", "d", "/", "m">>, stack |-> <<>>],
    [mode |-> "main", text |-> <<"h", "i">>, where |-> <<"/", "d", "/", "m">>, stack |-> <<>>],
    [mode |-> "main", text |-> <<"a", "@", "b", " ", "c">>, where |-> <<"/", "d", "/", "m">>, stack |-> <<>>],
    [mode |-> "main", text |-> <<"@", ".", "/", "a">>, where |-> <<"/", "d", "/", "m">>, stack |-> <<>>],
    [mode |-> "main", text |-> <<"@", "h", "t", "t", "p", ":", "/", "/", "u">>, where |-> <<"/", "d", "/", "m">>, stack |-> <<>>],
    [mode |-> "main", text |-> <<"!", Tick, "c", Tick>>, where |-> <<"/", "d", "/", "m">>, stack |-> <<>>],
    [mode |-> "main", text |-> <<"@", ".", "/", "t", "/", "e">>, where |-> <<"/", "d", "/", "m">>, stack |-> <<>>],
    [mode |-> "main", text |-> <<"@", ".", "/", "s">>, where |-> <<"r", "/", "m">>, stack |-> <<>>] }

Scenarios == PickedScenarios \cup ScanScenarios

\* ------------------------------------------------------------------------
\* Glob patterns
\* ------------------------------------------------------------------------

\* the characters of paths in the order of their codes
Alphabet ==
  <<"*", ".", "/", "?", "a", "b", "c", "d", "e", "f", "g", "h", "i", "j", "k", "l", "m",
    "n", "o", "p", "q", "r", "s", "t", "u", "v", "w", "x", "y", "z">>

CharCode(ch) == CHOOSE i \in 1..Len(Alphabet) : Alphabet[i] = ch

\* a < b for two strings, character by character
LexLess(a, b) ==
  \E i \in 1..Len(b) :
    /\ \A j \in 1..(i - 1) : j <= Len(a) /\ a[j] = b[j]
    /\ (i > Len(a) \/ (i <= Len(a) /\ CharCode(a[i]) < CharCode(b[i])))
    /\ i - 1 <= Len(a)

\* the payload holds a wildcard character
IsGlobPattern(payload) == \E i \in 1..Len(payload) : payload[i] \in {"*", "?"}

\* the pattern from position i matches the path from position j: a star
\* stands for any run of characters without a slash, a question mark for
\* one such character
RECURSIVE GlobMatchFrom(_, _, _, _)
GlobMatchFrom(pattern, i, path, j) ==
  IF i > Len(pattern) THEN j > Len(path)
  ELSE IF pattern[i] = "*"
  THEN \E k \in j..(Len(path) + 1) :
         /\ \A n \in j..(k - 1) : path[n] # "/"
         /\ GlobMatchFrom(pattern, i + 1, path, k)
  ELSE IF pattern[i] = "?"
  THEN j <= Len(path) /\ path[j] # "/" /\ GlobMatchFrom(pattern, i + 1, path, j + 1)
  ELSE j <= Len(path) /\ path[j] = pattern[i] /\ GlobMatchFrom(pattern, i + 1, path, j + 1)

\* the files the pattern matches
GlobMatches(pattern) ==
  Once(pattern, LAMBDA p : {FS[k].path : k \in {n \in 1..Len(FS) : GlobMatchFrom(p, 1, FS[n].path, 1)}})

\* the orders in which the file system may list a set of files
Listings(files) ==
  {l \in [1..Cardinality(files) -> files] : \A i, j \in 1..Cardinality(files) : l[i] = l[j] => i = j}

\* sorted with path inserted at its place
Insert(sorted, path) ==
  Once(Cardinality({i \in 1..Len(sorted) : LexLess(sorted[i], path)}), LAMBDA k :
    SubSeq(sorted, 1, k) \o <<path>> \o SubSeq(sorted, k + 1, Len(sorted)))

RECURSIVE SortFrom(_, _, _)
SortFrom(listing, i, acc) ==
  IF i > Len(listing) THEN acc ELSE SortFrom(listing, i + 1, Insert(acc, listing[i]))

\* a resolver that keeps the order of the listing
SortPathsAsListed(listing) == listing

\* the listing in lexicographic order
SortPaths(listing) == Once(listing, LAMBDA v : SortFrom(v, 1, <<>>))

RECURSIVE ConcatFrom(_, _)
ConcatFrom(parts, i) == IF i > Len(parts) THEN <<>> ELSE parts[i] \o ConcatFrom(parts, i + 1)

\* the parts one after the other
Concat(parts) == Once(parts, LAMBDA v : ConcatFrom(v, 1))

\* ------------------------------------------------------------------------
\* Failures and results
\* ------------------------------------------------------------------------

S_unknown == <<"u", "n", "k", "n", "o", "w", "n">>

NoError ==
  [kind |-> "", payload |-> <<>>, resolved |-> <<>>, chain |-> <<>>,
   url |-> <<>>, status |-> 0, ctype |-> <<>>, wrapped |-> FALSE]

\* new Error(`Circular import detected: ${[...stack, resolvedPath].join(" -> ")}`)
\* a message that names the cycle only: from the first entry of the path on
CircularImportCycleOnly(stack, resolvedPath) ==
  LET first == CHOOSE i \in 1..Len(stack) : stack[i] = resolvedPath IN
  [NoError EXCEPT !.kind = "Circular import detected",
                  !.chain = Append(SubSeq(stack, first, Len(stack)), resolvedPath),
                  !.resolved = resolvedPath]

CircularImport(stack, resolvedPath) ==
  [NoError EXCEPT !.kind = "Circular import detected",
                  !.chain = Append(stack, resolvedPath), !.resolved = resolvedPath]

\* new Error(`Import not found: ${importPath} (resolved to ${resolvedPath})`)
\* a message that names the payload only
ImportNotFoundPayloadOnly(importPath, resolvedPath) ==
  [NoError EXCEPT !.kind = "Import not found", !.payload = importPath]

ImportNotFound(importPath, resolvedPath) ==
  [NoError EXCEPT !.kind = "Import not found",
                  !.payload = importPath, !.resolved = resolvedPath]

\* new Error(`URL returned unsupported content type: ${contentType || "unknown"}. ... URL: ${url}`)
UnsupportedContentType(contentType, url) ==
  [NoError EXCEPT !.kind = "unsupported content type",
                  !.ctype = IF Falsy(contentType) THEN S_unknown ELSE contentType,
                  !.url = url]

\* new Error(`HTTP ${response.status}: ${response.statusText}`), not wrapped
HttpError(status) == [NoError EXCEPT !.kind = "HTTP", !.status = status]

\* new Error(`Failed to fetch URL: ${url} - ${err.message}`); status is the
\* status named by the wrapped message, 0 when the cause is not a status
FailedToFetch(url, status) ==
  [NoError EXCEPT !.kind = "Failed to fetch URL", !.url = url,
                  !.status = status, !.wrapped = TRUE]

\* new Error(`Command failed: ${command} - ${err.message}`)
CommandFailed(command) ==
  [NoError EXCEPT !.kind = "Command failed", !.payload = command, !.wrapped = TRUE]

\* a promise that resolves with text / rejects with err
Resolved(text) == [ok |-> TRUE, text |-> text, err |-> NoError]

Rejected(err) == [ok |-> FALSE, text |-> <<>>, err |-> err]

\* response.ok
ResponseOk(resp) == resp.status \in 200..299

\* processUrlImport without the response.ok check
processUrlImportAnyStatus(url, resp) ==
  IF ~resp.net THEN Rejected(FailedToFetch(url, 0))
  ELSE IF ~Falsy(resp.contentType) /\ isAllowedContentType(resp.contentType)
  THEN Resolved(Trim(resp.body))
  ELSE IF inferContentType(resp.body, url) \in {"markdown", "json"}
  THEN Resolved(Trim(resp.body))
  ELSE Rejected(UnsupportedContentType(resp.contentType, url))

\* processUrlImport, given what the network answers
processUrlImport(url, resp) ==
  IF ~resp.net THEN Rejected(FailedToFetch(url, 0))
  ELSE IF ~ResponseOk(resp)
  THEN Rejected(IF resp.phrase THEN HttpError(resp.status)
                ELSE FailedToFetch(url, resp.status))
  ELSE IF ~Falsy(resp.contentType) /\ isAllowedContentType(resp.contentType)
  THEN Resolved(Trim(resp.body))
  ELSE IF inferContentType(resp.body, url) \in {"markdown", "json"}
  THEN Resolved(Trim(resp.body))
  ELSE Rejected(UnsupportedContentType(resp.contentType, url))

\* processCommandInline with the standard output placed first
processCommandInlineStdoutFirst(command, res) ==
  IF ~res.launch THEN Rejected(CommandFailed(command))
  ELSE Resolved(Trim(res.stdout)
                \o (IF Trim(res.stderr) # <<>> /\ Trim(res.stdout) # <<>> THEN <<"\n">> ELSE <<>>)
                \o Trim(res.stderr))

\* processCommandInline that takes a non-zero exit status for a failure
processCommandInlineExitChecked(command, res) ==
  IF ~res.launch \/ res.exitCode # 0 THEN Rejected(CommandFailed(command))
  ELSE IF Trim(res.stderr) # <<>> /\ Trim(res.stdout) # <<>>
  THEN Resolved(Trim(res.stderr) \o <<"\n">> \o Trim(res.stdout))
  ELSE Resolved(Trim(res.stdout) \o Trim(res.stderr))

\* processCommandInline, given what the spawn yields
processCommandInline(command, res) ==
  IF ~res.launch THEN Rejected(CommandFailed(command))
  ELSE LET stdout == Trim(res.stdout)
           stderr == Trim(res.stderr) IN
       IF stderr # <<>> /\ stdout # <<>> THEN Resolved(stderr \o <<"\n">> \o stdout)
       ELSE IF stdout # <<>> THEN Resolved(stdout)
       ELSE IF stderr # <<>> THEN Resolved(stderr)
       ELSE Resolved(<<>>)

\* a stack whose has() never answers true
stackHasNothing(stack, resolvedPath) == FALSE

\* ImportStack = Set<string>: the elements in insertion order
stackHas(stack, resolvedPath) == \E i \in 1..Len(stack) : stack[i] = resolvedPath

\* a nested call that is handed the stack without the path added
newStackWithoutPath(stack, resolvedPath) == stack

\* const newStack = new Set(stack); newStack.add(resolvedPath)
\* a copy that takes the path in front
newStackInFront(stack, resolvedPath) == <<resolvedPath>> \o stack

newStack(stack, resolvedPath) ==
  IF stackHas(stack, resolvedPath) THEN stack ELSE Append(stack, resolvedPath)

\* stack.add(resolvedPath) without the copy: the caller's stack grows
callerStackShared(stack, resolvedPath) ==
  IF \E i \in 1..Len(stack) : stack[i] = resolvedPath THEN stack
  ELSE Append(stack, resolvedPath)

\* the caller's stack after new Set(stack): the copy leaves it as it was
callerStack(stack, resolvedPath) == stack

\* a nested call that is handed the directory of the importing invocation
nestedDirOfImporter(resolvedPath, currentFileDir) == currentFileDir

\* the directory handed to the nested expandImports
nestedDir(resolvedPath, currentFileDir) == dirname(resolvedPath)

\* result.slice(0, index) + replacement + result.slice(index + full.length)
\* a scan that reads the text the invocation was given
ScanInputOriginal(content, result) == content

\* the text the scans for URL imports and command inlines read: result
ScanInput(content, result) == result

\* a replacement in place: as many characters are dropped as are put in
SpliceInPlace(result, index, full, replacement) ==
  SubSeq(result, 1, index - 1) \o replacement
    \o SubSeq(result, index + Len(replacement), Len(result))

Splice(result, index, full, replacement) ==
  SubSeq(result, 1, index - 1) \o replacement \o SubSeq(result, index + full, Len(result))

\* ------------------------------------------------------------------------
\* The budget monitor
\* ------------------------------------------------------------------------

RECURSIVE CountFrom(_, _)
CountFrom(s, i) ==
  IF i > Len(s) THEN 0
  ELSE (IF s[i] = RunOfX THEN RunLength ELSE 1) + CountFrom(s, i + 1)

\* string.length
Length(s) == Once(s, LAMBDA v : CountFrom(v, 1))

WARN_TOKENS == 50000

MAX_TOKENS == 100000

CHARS_PER_TOKEN == 4

\* the values process.env.MA_FORCE_CONTEXT may have: unset, empty, "1"
EnvValues == {NULL, <<>>, <<"1">>}

\* what an earlier top-level call may have left in the counter
LeftOver == 4 * RunLength

\* the estimated token count of a number of characters, rounded up
EstimateTokens(chars) == (chars + CHARS_PER_TOKEN - 1) \div CHARS_PER_TOKEN

\* a monitor without the hard threshold
BudgetVerdictNoLimit(chars, flag) ==
  IF EstimateTokens(chars) > WARN_TOKENS /\ EstimateTokens(chars) <= MAX_TOKENS
  THEN "warn" ELSE "ok"

\* a monitor that warns from the warn threshold on, whatever the count
BudgetVerdictWarnAbove(chars, flag) ==
  IF EstimateTokens(chars) > MAX_TOKENS /\ Falsy(flag) THEN "fail"
  ELSE IF EstimateTokens(chars) >= WARN_TOKENS THEN "warn" ELSE "ok"

\* the verdict on a running total: "fail" above the hard threshold unless
\* the override is set, "warn" above the warn threshold and not above the
\* hard one, "ok" otherwise
BudgetVerdict(chars, flag) ==
  IF EstimateTokens(chars) > MAX_TOKENS /\ Falsy(flag) THEN "fail"
  ELSE IF EstimateTokens(chars) > WARN_TOKENS /\ EstimateTokens(chars) <= MAX_TOKENS
  THEN "warn" ELSE "ok"

\* Error whose message holds "exceeds the 100,000 token limit"; status is
\* the estimated token count
TokenBudgetExceeded(tokens) ==
  [NoError EXCEPT !.kind = "exceeds the 100,000 token limit", !.status = tokens]

\* a counter that is kept for each directive on its own
RunningTotalPerDirective(total, chars) == chars

\* the running total after chars more characters were admitted
RunningTotal(total, chars) == total + chars

\* the counter at the start of a top-level call
ResetTotal(total) == 0

\* ------------------------------------------------------------------------
\* State
\* ------------------------------------------------------------------------

\* most frames of expandImports that a run may nest
MaxDepth == 6

VARIABLES
  scenario,      \* the input of the run (never changes)
  mpc,           \* where the caller is
  frames,        \* the active invocations of expandImports, outermost first
  outcome,       \* how the top-level expandImports call ended
  expandedBody,  \* main: the body after expansion
  reported,      \* main: the failure written by console.error
  io,            \* history: the file, network and process operations so far
  fetched,       \* history: each fetch with its response and its result
  hit,           \* history: a resolved path was asked for while open on the branch
  alias,         \* history: a file was asked for while open on the branch
  seen,          \* history: the resolved paths that were loaded
  spawned,       \* history: each command with what the spawn yielded and its result
  MA_FORCE_CONTEXT,  \* process.env.MA_FORCE_CONTEXT (never changes)
  totalChars,    \* the budget monitor's running count of admitted characters
  budget,        \* history: each admission with the verdict of the budget monitor
  globbed,       \* history: each glob import with its matches and its replacement
  conc           \* two calls at the same time: the cursors of the patterns and
                 \* the calls (used by ConcSpec only)

vars == <<scenario, mpc, frames, outcome, expandedBody, reported, io, fetched, hit, alias, seen, spawned, MA_FORCE_CONTEXT, totalChars, budget, globbed, conc>>

\* the top-level text
rawBody == Cells(scenario.text, OriginBase(0))

\* main: const fileDir = dirname(resolve(localFilePath))
fileDir == dirname(IF StartsWith(scenario.where, <<"/">>) THEN NormAbs(scenario.where)
                   ELSE resolve(<<>>, scenario.where))

Pending == [state |-> "none", text |-> <<>>, err |-> NoError]

\* no call is running: the cursors are where the module was loaded
NoCalls == [lastIndex |-> [file |-> 0, url |-> 0, cmd |-> 0], task |-> <<>>,
            stale |-> FALSE, mixed |-> FALSE]

\* expandImports up to its first await: result = content and the scan for
\* file imports, reversed.  file is the path the content was read from (NULL
\* for the top-level text).  scanned and done are history: the text each
\* scan read and the replacements made so far.
Enter(content, currentFileDir, stack, file) ==
  Once(content, LAMBDA text :
    [content |-> text, result |-> text, dir |-> currentFileDir, stack |-> stack,
     file |-> file, pc |-> "files",
     todo |-> Reverse(ExecAll("file", Chars(text))),
     inGlob |-> FALSE, listing |-> <<>>, batch |-> <<>>, acc |-> <<>>,
     scanned |-> [files |-> text, urls |-> <<>>, cmds |-> <<>>], done |-> <<>>])

Init ==
  /\ scenario \in Scenarios
  /\ mpc = "init"
  /\ frames = <<>>
  /\ outcome = Pending
  /\ expandedBody = <<>>
  /\ reported = NoError
  /\ io = <<>>
  /\ fetched = <<>>
  /\ hit = FALSE
  /\ alias = FALSE
  /\ seen = {}
  /\ spawned = <<>>
  /\ MA_FORCE_CONTEXT \in EnvValues
  /\ totalChars \in {0, LeftOver}
  /\ budget = <<>>
  /\ globbed = <<>>
  /\ conc = NoCalls

Depth == Len(frames)

Top == frames[Depth]

\* the paths of the files open on the branch, as handed to the stack
BranchPaths ==
  {scenario.stack[i] : i \in 1..Len(scenario.stack)} \cup {frames[i].file : i \in 2..Depth}

\* the files open on the branch
BranchFiles == {NormAbs(frames[i].file) : i \in 2..Depth}

\* one operation: what was asked (arg), the directive payload it came from,
\* the directory and the file of the invocation that asked, and whether the
\* operation succeeded (the file exists, the body is admitted, the command
\* was launched)
IoEntry(op, arg, payload, ok) ==
  [op |-> op, arg |-> arg, payload |-> payload, dir |-> Top.dir, by |-> Top.file,
   ok |-> ok]

\* a catch block that only reports and lets main go on
afterCatchContinue == "post"

\* where main goes after its catch block: process.exit(1)
afterCatch == "exit1"

\* a rejection: no invocation of expandImports catches, so all of them end
Throw(err) ==
  /\ frames' = <<>>
  /\ outcome' = [state |-> "threw", text |-> <<>>, err |-> err]
  /\ mpc' = IF scenario.mode = "main" THEN "catch" ELSE "done"

\* the budget monitor is told of chars more characters admitted by a
\* directive of the kind op
Admit(op, chars) ==
  /\ totalChars' = RunningTotal(totalChars, chars)
  /\ budget' = Append(budget,
       [op |-> op, chars |-> chars, before |-> totalChars,
        total |-> RunningTotal(totalChars, chars),
        verdict |-> BudgetVerdict(RunningTotal(totalChars, chars), MA_FORCE_CONTEXT),
        depth |-> Depth])

\* the monitor's verdict on chars more characters is "fail"
Refused(chars) ==
  BudgetVerdict(RunningTotal(totalChars, chars), MA_FORCE_CONTEXT) = "fail"

\* the failure the monitor raises for chars more characters
OverBudget(chars) ==
  TokenBudgetExceeded(EstimateTokens(RunningTotal(totalChars, chars)))

\* ------------------------------------------------------------------------
\* The callers
\* ------------------------------------------------------------------------

\* a direct call expandImports(content, currentFileDir, stack)
ApiCall ==
  /\ mpc = "init" /\ scenario.mode = "api"
  /\ frames' = <<Enter(rawBody, scenario.where, scenario.stack, NULL)>>
  /\ mpc' = "expanding"
  /\ totalChars' = ResetTotal(totalChars)
  /\ UNCHANGED <<scenario, outcome, expandedBody, reported, io, fetched, hit, alias, seen, spawned, MA_FORCE_CONTEXT, budget, globbed, conc>>

\* main: hasImports(rawBody) holds, expandImports(rawBody, fileDir, new Set())
MainExpand ==
  /\ mpc = "init" /\ scenario.mode = "main"
  /\ hasImports(Chars(rawBody))
  /\ frames' = <<Enter(rawBody, fileDir, <<>>, NULL)>>
  /\ mpc' = "expanding"
  /\ totalChars' = ResetTotal(totalChars)
  /\ UNCHANGED <<scenario, outcome, expandedBody, reported, io, fetched, hit, alias, seen, spawned, MA_FORCE_CONTEXT, budget, globbed, conc>>

\* main: hasImports(rawBody) does not hold, expandedBody = rawBody
MainSkip ==
  /\ mpc = "init" /\ scenario.mode = "main"
  /\ ~hasImports(Chars(rawBody))
  /\ expandedBody' = rawBody
  /\ mpc' = "post"
  /\ UNCHANGED <<scenario, frames, outcome, reported, io, fetched, hit, alias, seen, spawned, MA_FORCE_CONTEXT, totalChars, budget, globbed, conc>>

\* main: the catch block reports the failure and exits
MainCatch ==
  /\ mpc = "catch"
  /\ reported' = outcome.err
  /\ mpc' = afterCatch
  /\ UNCHANGED <<scenario, frames, outcome, expandedBody, io, fetched, hit, alias, seen, spawned, MA_FORCE_CONTEXT, totalChars, budget, globbed, conc>>

\* main: one of the exits between the expansion and the command (missing
\* template variables, no frontmatter, prerequisites, unknown command)
MainExitEarly ==
  /\ mpc = "post"
  /\ mpc' = "exit"
  /\ UNCHANGED <<scenario, frames, outcome, expandedBody, reported, io, fetched, hit, alias, seen, spawned, MA_FORCE_CONTEXT, totalChars, budget, globbed, conc>>

\* main: runCommand
MainRunCommand ==
  /\ mpc = "post"
  /\ mpc' = "ran"
  /\ UNCHANGED <<scenario, frames, outcome, expandedBody, reported, io, fetched, hit, alias, seen, spawned, MA_FORCE_CONTEXT, totalChars, budget, globbed, conc>>

\* ------------------------------------------------------------------------
\* expandImports
\* ------------------------------------------------------------------------

\* history: the directive m of the pass was replaced by repl in before, when
\* ops operations had been performed
Replaced(pass, m, repl, before, ops) ==
  [pass |-> pass, index |-> m.index, full |-> m.full, payload |-> m.payload,
   repl |-> repl, before |-> before,
   after |-> Splice(before, m.index, m.full, repl), ops |-> ops]

InPass(pc) == Depth >= 1 /\ Top.pc = pc /\ Top.todo # <<>>

PassOver(pc) == Depth >= 1 /\ Top.pc = pc /\ Top.todo = <<>>

\* the next file import can be taken up: a payload without wildcard, or the
\* next file of the glob batch in progress
FileReady ==
  /\ InPass("files")
  /\ IF Top.inGlob THEN Len(Top.acc) < Len(Top.batch)
     ELSE ~IsGlobPattern(Head(Top.todo).payload)

\* the payload the next file import was asked with (the matched path for a
\* file of a glob batch)
NextPayload ==
  IF Top.inGlob THEN Top.batch[Len(Top.acc) + 1] ELSE Head(Top.todo).payload

\* the path processFileImport resolves for the next file import
NextResolved == resolveImportPath(NextPayload, Top.dir)

NoteAsked(resolvedPath) ==
  /\ hit' = (hit \/ resolvedPath \in BranchPaths)
  /\ alias' = (alias \/ NormAbs(resolvedPath) \in BranchFiles)

\* processFileImport: the resolved path is in the stack
FileCircular ==
  /\ FileReady
  /\ \E resolvedPath \in {NextResolved} :
       /\ stackHas(Top.stack, resolvedPath)
       /\ Throw(CircularImport(Top.stack, resolvedPath))
       /\ NoteAsked(resolvedPath)
  /\ UNCHANGED <<scenario, expandedBody, reported, io, fetched, seen, spawned, MA_FORCE_CONTEXT, totalChars, budget, globbed, conc>>

\* processFileImport: the file does not exist
FileNotFound ==
  /\ FileReady
  /\ \E resolvedPath \in {NextResolved} :
       /\ ~stackHas(Top.stack, resolvedPath)
       /\ FileIndex(resolvedPath) = 0
       /\ Throw(ImportNotFound(NextPayload, resolvedPath))
       /\ io' = Append(io, IoEntry("exists", resolvedPath, NextPayload, FALSE))
       /\ NoteAsked(resolvedPath)
  /\ UNCHANGED <<scenario, expandedBody, reported, fetched, seen, spawned, MA_FORCE_CONTEXT, totalChars, budget, globbed, conc>>

\* processFileImport: the file is read and expandImports is entered for it
FileLoad ==
  /\ FileReady
  /\ Depth < MaxDepth
  /\ \E resolvedPath \in {NextResolved} :
       /\ ~stackHas(Top.stack, resolvedPath)
       /\ FileIndex(resolvedPath) # 0
       /\ \E chars \in {Length(Chars(FileText(resolvedPath)))} :
            IF Top.inGlob
            THEN /\ frames' = [frames EXCEPT ![Depth].stack = callerStack(Top.stack, resolvedPath)]
                      \o <<Enter(FileText(resolvedPath), nestedDir(resolvedPath, Top.dir),
                                 newStack(Top.stack, resolvedPath), resolvedPath)>>
                 /\ UNCHANGED <<mpc, outcome, totalChars, budget>>
            ELSE /\ Admit("file", chars)
                 /\ IF Refused(chars)
                    THEN Throw(OverBudget(chars))
                    ELSE /\ frames' = [frames EXCEPT ![Depth].stack = callerStack(Top.stack, resolvedPath)]
                              \o <<Enter(FileText(resolvedPath), nestedDir(resolvedPath, Top.dir),
                                         newStack(Top.stack, resolvedPath), resolvedPath)>>
                         /\ UNCHANGED <<mpc, outcome>>
       /\ io' = io \o <<IoEntry("exists", resolvedPath, NextPayload, TRUE),
                        IoEntry("text", resolvedPath, NextPayload, TRUE)>>
       /\ seen' = seen \cup {resolvedPath}
       /\ NoteAsked(resolvedPath)
  /\ UNCHANGED <<scenario, expandedBody, reported, fetched, spawned, MA_FORCE_CONTEXT, globbed, conc>>

RECURSIVE SizeFrom(_, _)
SizeFrom(paths, i) ==
  IF i > Len(paths) THEN 0
  ELSE Length(FS[FileIndex(paths[i])].content) + SizeFrom(paths, i + 1)

\* the number of characters of the files together
CombinedSize(paths) == Once(paths, LAMBDA v : SizeFrom(v, 1))

\* a file import whose payload is a glob pattern: the matched files are
\* listed and sorted, their combined size goes to the budget monitor
GlobStart ==
  /\ InPass("files") /\ ~Top.inGlob
  /\ IsGlobPattern(Head(Top.todo).payload)
  /\ \E pattern \in {resolveImportPath(Head(Top.todo).payload, Top.dir)} :
     \E listing \in Listings(GlobMatches(pattern)) :
     \E chars \in {CombinedSize(listing)} :
       /\ listing # <<>>
       /\ io' = Append(io, IoEntry("glob", pattern, Head(Top.todo).payload, TRUE))
       /\ Admit("glob", chars)
       /\ IF Refused(chars)
          THEN Throw(OverBudget(chars))
          ELSE /\ frames' = [frames EXCEPT ![Depth].inGlob = TRUE,
                                           ![Depth].listing = listing,
                                           ![Depth].batch = SortPaths(listing),
                                           ![Depth].acc = <<>>]
               /\ UNCHANGED <<mpc, outcome>>
  /\ UNCHANGED <<scenario, expandedBody, reported, fetched, hit, alias, seen, spawned,
                 MA_FORCE_CONTEXT, globbed, conc>>

\* every file of the batch is expanded: the contents, one after the other,
\* replace the directive
GlobFinish ==
  /\ InPass("files") /\ Top.inGlob /\ Len(Top.acc) = Len(Top.batch)
  /\ \E after \in {Splice(Top.result, Head(Top.todo).index, Head(Top.todo).full,
                           Concat(Top.acc))} :
       /\ frames' = [frames EXCEPT ![Depth].result = after,
                                   ![Depth].todo = Tail(Top.todo),
                                   ![Depth].done = Append(Top.done,
                                     Replaced("files", Head(Top.todo), Concat(Top.acc), Top.result, Len(io))),
                                   ![Depth].inGlob = FALSE,
                                   ![Depth].listing = <<>>,
                                   ![Depth].batch = <<>>,
                                   ![Depth].acc = <<>>]
       /\ globbed' = Append(globbed,
            [payload |-> Head(Top.todo).payload, dir |-> Top.dir,
             listing |-> Top.listing, sorted |-> Top.batch, parts |-> Top.acc,
             before |-> Top.result, at |-> Head(Top.todo).index,
             full |-> Head(Top.todo).full, after |-> after])
  /\ UNCHANGED <<scenario, mpc, outcome, expandedBody, reported, io, fetched, hit, alias,
                 seen, spawned, MA_FORCE_CONTEXT, totalChars, budget, conc>>

\* the file imports are done: scan the result for URL imports
StartUrlPass ==
  /\ PassOver("files")
  /\ \E text \in {ScanInput(Top.content, Top.result)} :
       frames' = [frames EXCEPT ![Depth].pc = "urls",
                                ![Depth].scanned.urls = text,
                                ![Depth].todo = Reverse(ExecAll("url", Chars(text)))]
  /\ UNCHANGED <<scenario, mpc, outcome, expandedBody, reported, io, fetched, hit, alias, seen, spawned, MA_FORCE_CONTEXT, totalChars, budget, globbed, conc>>

\* one URL import: fetch, admit or reject
UrlImport ==
  /\ InPass("urls")
  /\ \E resp \in Responses : \E out \in {processUrlImport(Head(Top.todo).payload, resp)} :
       LET imp == Head(Top.todo) IN
       /\ IF out.ok
          THEN /\ Admit("url", Length(out.text))
               /\ IF Refused(Length(out.text))
                  THEN Throw(OverBudget(Length(out.text)))
                  ELSE /\ frames' = [frames EXCEPT
                            ![Depth].result = Splice(Top.result, imp.index, imp.full, Ext(out.text)),
                            ![Depth].done = Append(Top.done,
                              Replaced("urls", imp, Ext(out.text), Top.result, Len(io) + 1)),
                            ![Depth].todo = Tail(Top.todo)]
                       /\ UNCHANGED <<mpc, outcome>>
          ELSE /\ Throw(out.err)
               /\ UNCHANGED <<totalChars, budget>>
       /\ io' = Append(io, IoEntry("fetch", imp.payload, imp.payload, out.ok))
       /\ fetched' = Append(fetched, [url |-> imp.payload, resp |-> resp, out |-> out,
                                      before |-> Top.result, at |-> imp.index,
                                      full |-> imp.full,
                                      after |-> IF out.ok
                                                THEN Splice(Top.result, imp.index,
                                                            imp.full, Ext(out.text))
                                                ELSE <<>>])
  /\ UNCHANGED <<scenario, expandedBody, reported, hit, alias, seen, spawned, MA_FORCE_CONTEXT, globbed, conc>>

\* the URL imports are done: scan the result for command inlines
StartCommandPass ==
  /\ PassOver("urls")
  /\ \E text \in {ScanInput(Top.content, Top.result)} :
       frames' = [frames EXCEPT ![Depth].pc = "cmds",
                                ![Depth].scanned.cmds = text,
                                ![Depth].todo = Reverse(ExecAll("cmd", Chars(text)))]
  /\ UNCHANGED <<scenario, mpc, outcome, expandedBody, reported, io, fetched, hit, alias, seen, spawned, MA_FORCE_CONTEXT, totalChars, budget, globbed, conc>>

\* one command inline: spawn, splice the output
CommandInline ==
  /\ InPass("cmds")
  /\ \E res \in SpawnResults : \E out \in {processCommandInline(Head(Top.todo).payload, res)} :
       LET cmd == Head(Top.todo) IN
       /\ io' = Append(io, IoEntry("spawn", cmd.payload, cmd.payload, res.launch))
       /\ spawned' = Append(spawned, [command |-> cmd.payload, res |-> res, out |-> out,
                                      before |-> Top.result, at |-> cmd.index,
                                      full |-> cmd.full, left |-> Len(Top.todo) - 1,
                                      after |-> IF out.ok
                                                THEN Splice(Top.result, cmd.index,
                                                            cmd.full, Ext(out.text))
                                                ELSE <<>>])
       /\ IF out.ok
          THEN /\ Admit("cmd", Length(out.text))
               /\ IF Refused(Length(out.text))
                  THEN Throw(OverBudget(Length(out.text)))
                  ELSE /\ frames' = [frames EXCEPT
                            ![Depth].result = Splice(Top.result, cmd.index, cmd.full, Ext(out.text)),
                            ![Depth].done = Append(Top.done,
                              Replaced("cmds", cmd, Ext(out.text), Top.result, Len(io) + 1)),
                            ![Depth].todo = Tail(Top.todo)]
                       /\ UNCHANGED <<mpc, outcome>>
          ELSE /\ Throw(out.err)
               /\ UNCHANGED <<totalChars, budget>>
  /\ UNCHANGED <<scenario, expandedBody, reported, fetched, hit, alias, seen, MA_FORCE_CONTEXT, globbed, conc>>

\* a nested expandImports returns: its result replaces the import in the
\* importing text
ReturnNested ==
  /\ PassOver("cmds")
  /\ Depth > 1
  /\ LET parent == frames[Depth - 1]
         imp == Head(parent.todo) IN
     frames' = IF parent.inGlob
               THEN [SubSeq(frames, 1, Depth - 1) EXCEPT
                       ![Depth - 1].acc = Append(parent.acc, Top.result)]
               ELSE [SubSeq(frames, 1, Depth - 1) EXCEPT
                       ![Depth - 1].result = Splice(parent.result, imp.index, imp.full, Top.result),
                       ![Depth - 1].done = Append(parent.done,
                         Replaced("files", imp, Top.result, parent.result, Len(io))),
                       ![Depth - 1].todo = Tail(parent.todo)]
  /\ UNCHANGED <<scenario, mpc, outcome, expandedBody, reported, io, fetched, hit, alias, seen, spawned, MA_FORCE_CONTEXT, totalChars, budget, globbed, conc>>

\* the top-level expandImports returns
ReturnTop ==
  /\ PassOver("cmds")
  /\ Depth = 1
  /\ outcome' = [state |-> "returned", text |-> Top.result, err |-> NoError]
  /\ frames' = <<>>
  /\ mpc' = IF scenario.mode = "main" THEN "post" ELSE "done"
  /\ expandedBody' = IF scenario.mode = "main" THEN Top.result ELSE expandedBody
  /\ UNCHANGED <<scenario, reported, io, fetched, hit, alias, seen, spawned, MA_FORCE_CONTEXT, totalChars, budget, globbed, conc>>

Next ==
  \/ ApiCall \/ MainExpand \/ MainSkip \/ MainCatch \/ MainExitEarly \/ MainRunCommand
  \/ FileCircular \/ FileNotFound \/ FileLoad \/ GlobStart \/ GlobFinish
  \/ StartUrlPass \/ UrlImport \/ StartCommandPass \/ CommandInline
  \/ ReturnNested \/ ReturnTop

Spec == Init /\ [][Next]_vars

\* every step that can be taken is eventually taken: the calls of the run are
\* awaited one after the other and each of them returns
FairSpec == Spec /\ WF_vars(Next)

\* ------------------------------------------------------------------------
\* Calls that run at the same time: the cursors of the three patterns
\* ------------------------------------------------------------------------

\* a scan that starts where the cursor of the pattern was left
ResetCursorKeep(lastIndex) == lastIndex

\* PATTERN.lastIndex = 0
ResetCursor(lastIndex) == 0

\* "while ((match = PATTERN.exec(text)) !== null)" with the cursor at
\* lastIndex (counted from 0): the matches; the last exec, which yields
\* null, leaves the cursor at 0
ExecLoop(kind, s, lastIndex) == Once(s, LAMBDA v : ExecFrom(kind, v, lastIndex + 1))

\* PATTERN.test(text) with the cursor at lastIndex: whether there is a match
\* and where the cursor is left (behind the match, at 0 when there is none)
TestAt(kind, s, lastIndex) ==
  Once(ExecLoop(kind, s, lastIndex), LAMBDA ms :
    [found |-> ms # <<>>,
     lastIndex |-> IF ms = <<>> THEN 0 ELSE ms[1].index + ms[1].full - 1])

\* hasImports with the cursors at cur: the three resets, then the tests as
\* far as || evaluates them
hasImportsAt(s, cur) ==
  LET f == TestAt("file", s, ResetCursor(cur.file))
      u == TestAt("url", s, ResetCursor(cur.url))
      c == TestAt("cmd", s, ResetCursor(cur.cmd)) IN
  IF f.found
  THEN [value |-> TRUE,
        lastIndex |-> [file |-> f.lastIndex, url |-> ResetCursor(cur.url),
                       cmd |-> ResetCursor(cur.cmd)]]
  ELSE IF u.found
  THEN [value |-> TRUE,
        lastIndex |-> [file |-> f.lastIndex, url |-> u.lastIndex,
                       cmd |-> ResetCursor(cur.cmd)]]
  ELSE [value |-> c.found,
        lastIndex |-> [file |-> f.lastIndex, url |-> u.lastIndex, cmd |-> c.lastIndex]]

\* one scan of expandImports with the cursors at cur: the reset and the loop
ScanAt(kind, s, cur) == ExecLoop(kind, s, ResetCursor(cur[kind]))

\* what the server answers and what the command prints while the calls run
FixedResponse(url) ==
  [net |-> TRUE, status |-> 200, phrase |-> FALSE, contentType |-> S_text_plain,
   body |-> <<"#", "h">>]

FixedSpawn(command) ==
  [launch |-> TRUE, stdout |-> <<"o", "\n">>, stderr |-> <<>>, exitCode |-> 0]

\* the largest value a cursor may have been left at by earlier calls
MaxCursor == 1

\* the texts the two calls are made with, in the directory /d
ConcTexts ==
  { <<"@", ".", "/", "s">>, <<"@", ".", "/", "n">>, <<"@", ".", "/", "m">>,
    <<"@", ".", "/", "i">>, <<"h", "i">>,
    <<"a", "@", "b", " ", "c">>, <<"@", "~", "a">>, <<"!", Tick, "c", Tick>>,
    <<"@", ".", "/", "s", " ", "@", "h", "t", "t", "p", ":", "/", "/", "u", " ", "!", Tick, "c", Tick>> }

ConcDir == <<"/", "d">>

\* a call that has not started: hasImports(text) or
\* expandImports(text, "/d"); ops counts the operations it has asked for
\* (existence check, read, fetch, spawn)
NewCall(kind, text) ==
  [kind |-> kind, text |-> text, state |-> "init", frames |-> <<>>, out |-> <<>>,
   err |-> NoError, value |-> FALSE, scans |-> <<>>, ops |-> 0]

ConcCalls == {NewCall(kind, text) : kind \in {"has", "expand"}, text \in ConcTexts}

mainVars == <<scenario, mpc, frames, outcome, expandedBody, reported, io, fetched, hit, alias, seen, spawned, MA_FORCE_CONTEXT, totalChars, budget, globbed>>

ConcInit ==
  /\ scenario = [mode |-> "api", text |-> <<>>, where |-> ConcDir, stack |-> <<>>]
  /\ mpc = "conc"
  /\ frames = <<>>
  /\ outcome = Pending
  /\ expandedBody = <<>>
  /\ reported = NoError
  /\ io = <<>>
  /\ fetched = <<>>
  /\ hit = FALSE
  /\ alias = FALSE
  /\ seen = {}
  /\ spawned = <<>>
  /\ MA_FORCE_CONTEXT = NULL
  /\ totalChars = 0
  /\ budget = <<>>
  /\ globbed = <<>>
  /\ conc \in [lastIndex : [file : 0..MaxCursor, url : 0..MaxCursor, cmd : 0..MaxCursor],
                task : {<<a, b>> : a \in ConcCalls, b \in ConcCalls},
                stale : {FALSE}, mixed : {FALSE}]

\* the call t makes a step: its record and the cursors change; stale notes
\* that a scan started with a cursor that was not at 0, mixed that the step
\* was made between two steps of the other call
ConcStep(t, call, lastIndex, stale) ==
  /\ conc' = [conc EXCEPT !.task[t] = call, !.lastIndex = lastIndex,
                          !.stale = @ \/ stale,
                          !.mixed = @ \/ (conc.task[t].state = "running"
                                           /\ conc.task[3 - t].state = "running")]
  /\ UNCHANGED mainVars

\* history: the scan of the kind over text with the cursors at cur
Scanned(call, kind, text, cur) ==
  Append(call.scans, [kind |-> kind, text |-> Chars(text),
                      got |-> ScanAt(kind, Chars(text), cur)])

\* expandImports up to its first await, with the cursors at cur
EnterAt(content, currentFileDir, stack, file, cur) ==
  [Enter(content, currentFileDir, stack, file) EXCEPT
     !.todo = Reverse(ScanAt("file", Chars(content), cur))]

CallTop(call) == call.frames[Len(call.frames)]

InCallPass(call, pc) ==
  call.state = "running" /\ CallTop(call).pc = pc /\ CallTop(call).todo # <<>>

CallPassOver(call, pc) ==
  call.state = "running" /\ CallTop(call).pc = pc /\ CallTop(call).todo = <<>>

CallThrows(call, err) == [call EXCEPT !.state = "threw", !.frames = <<>>, !.err = err]

\* history: the call has asked for n more operations
Asked(call, n) == [call EXCEPT !.ops = @ + n]

\* hasImports(text): one synchronous run
CHasImports(t) ==
  LET call == conc.task[t] IN
  /\ call.kind = "has" /\ call.state = "init"
  /\ \E r \in {hasImportsAt(call.text, conc.lastIndex)} :
       ConcStep(t, [call EXCEPT !.state = "answered", !.value = r.value], r.lastIndex,
                conc.lastIndex # NoCalls.lastIndex)

\* expandImports(text, "/d") is called: it runs up to its first await
CEnter(t) ==
  LET call == conc.task[t] IN
  /\ call.kind = "expand" /\ call.state = "init"
  /\ \E text \in {Cells(call.text, OriginBase(0))} :
       ConcStep(t, [call EXCEPT !.state = "running",
                                !.frames = <<EnterAt(text, ConcDir, <<>>, NULL, conc.lastIndex)>>,
                                !.scans = Scanned(call, "file", text, conc.lastIndex)],
                [conc.lastIndex EXCEPT !.file = 0], conc.lastIndex.file # 0)

\* processFileImport and, when the file is read, the nested expandImports
\* up to its first await
CFile(t) ==
  LET call == conc.task[t] IN
  /\ InCallPass(call, "files")
  /\ \E top \in {CallTop(call)} :
     \E resolvedPath \in {resolveImportPath(Head(top.todo).payload, top.dir)} :
       IF stackHas(top.stack, resolvedPath)
       THEN ConcStep(t, CallThrows(call, CircularImport(top.stack, resolvedPath)),
                     conc.lastIndex, FALSE)
       ELSE IF FileIndex(resolvedPath) = 0
       THEN ConcStep(t, CallThrows(Asked(call, 1),
                                      ImportNotFound(Head(top.todo).payload, resolvedPath)),
                     conc.lastIndex, FALSE)
       ELSE ConcStep(t,
              [Asked(call, 2) EXCEPT
                 !.frames = Append(call.frames,
                    EnterAt(FileText(resolvedPath), nestedDir(resolvedPath, top.dir),
                            newStack(top.stack, resolvedPath), resolvedPath, conc.lastIndex)),
                 !.scans = Scanned(call, "file", FileText(resolvedPath), conc.lastIndex)],
              [conc.lastIndex EXCEPT !.file = 0], conc.lastIndex.file # 0)

\* the scan for URL imports of the innermost invocation of the call
CStartUrlPass(t) ==
  LET call == conc.task[t] IN
  /\ CallPassOver(call, "files")
  /\ \E top \in {CallTop(call)} :
       ConcStep(t,
         [call EXCEPT
            !.frames[Len(call.frames)].pc = "urls",
            !.frames[Len(call.frames)].todo = Reverse(ScanAt("url", Chars(top.result), conc.lastIndex)),
            !.scans = Scanned(call, "url", top.result, conc.lastIndex)],
         [conc.lastIndex EXCEPT !.url = 0], conc.lastIndex.url # 0)

\* one URL import of the call
CUrlImport(t) ==
  LET call == conc.task[t] IN
  /\ InCallPass(call, "urls")
  /\ \E top \in {CallTop(call)} :
     \E out \in {processUrlImport(Head(top.todo).payload, FixedResponse(Head(top.todo).payload))} :
       ConcStep(t,
         IF out.ok
         THEN [Asked(call, 1) EXCEPT
                 !.frames[Len(call.frames)].result =
                    Splice(top.result, Head(top.todo).index, Head(top.todo).full, Ext(out.text)),
                 !.frames[Len(call.frames)].todo = Tail(top.todo)]
         ELSE CallThrows(Asked(call, 1), out.err),
         conc.lastIndex, FALSE)

\* the scan for command inlines of the innermost invocation of the call
CStartCommandPass(t) ==
  LET call == conc.task[t] IN
  /\ CallPassOver(call, "urls")
  /\ \E top \in {CallTop(call)} :
       ConcStep(t,
         [call EXCEPT
            !.frames[Len(call.frames)].pc = "cmds",
            !.frames[Len(call.frames)].todo = Reverse(ScanAt("cmd", Chars(top.result), conc.lastIndex)),
            !.scans = Scanned(call, "cmd", top.result, conc.lastIndex)],
         [conc.lastIndex EXCEPT !.cmd = 0], conc.lastIndex.cmd # 0)

\* one command inline of the call
CCommandInline(t) ==
  LET call == conc.task[t] IN
  /\ InCallPass(call, "cmds")
  /\ \E top \in {CallTop(call)} :
     \E out \in {processCommandInline(Head(top.todo).payload, FixedSpawn(Head(top.todo).payload))} :
       ConcStep(t,
         IF out.ok
         THEN [Asked(call, 1) EXCEPT
                 !.frames[Len(call.frames)].result =
                    Splice(top.result, Head(top.todo).index, Head(top.todo).full, Ext(out.text)),
                 !.frames[Len(call.frames)].todo = Tail(top.todo)]
         ELSE CallThrows(Asked(call, 1), out.err),
         conc.lastIndex, FALSE)

\* the innermost invocation of the call returns: to the importing
\* invocation, or to the caller
CReturn(t) ==
  LET call == conc.task[t] IN
  /\ CallPassOver(call, "cmds")
  /\ \E n \in {Len(call.frames)} : \E top \in {CallTop(call)} :
       ConcStep(t,
         IF n > 1
         THEN [call EXCEPT
                 !.frames = [SubSeq(call.frames, 1, n - 1) EXCEPT
                    ![n - 1].result = Splice(call.frames[n - 1].result,
                                             Head(call.frames[n - 1].todo).index,
                                             Head(call.frames[n - 1].todo).full, top.result),
                    ![n - 1].todo = Tail(call.frames[n - 1].todo)]]
         ELSE [call EXCEPT !.state = "returned", !.frames = <<>>, !.out = top.result],
         conc.lastIndex, FALSE)

ConcNext ==
  \E t \in 1..2 :
    \/ CHasImports(t) \/ CEnter(t) \/ CFile(t)
    \/ CStartUrlPass(t) \/ CUrlImport(t)
    \/ CStartCommandPass(t) \/ CCommandInline(t)
    \/ CReturn(t)

\* two calls whose steps between awaits are taken in any order
ConcSpec == ConcInit /\ [][ConcNext]_vars

\* ------------------------------------------------------------------------
\* Properties
\* ------------------------------------------------------------------------

T_chain == <<"@", ".", "/", "n">>
T_chain_expanded == <<"x", " ", "h", "i", " ", "y">>
T_siblings == <<"@", ".", "/", "s", " ", "@", ".", "/", "s">>
T_common_third == <<"@", ".", "/", "p", " ", "@", ".", "/", "q">>
T_twice_hi == <<"h", "i", " ", "h", "i">>
T_plain == <<"h", "i">>
T_email == <<"a", "@", "b", " ", "c">>
P_d == <<"/", "d">>
P_d_t == <<"/", "d", "/", "t">>

Returned == outcome.state = "returned"

Threw == outcome.state = "threw"

Circular == Threw /\ outcome.err.kind = "Circular import detected"

TokenLimit == Threw /\ outcome.err.kind = "exceeds the 100,000 token limit"

\* C1: when processFileImport is asked for a path that is open on the current
\* branch the call fails with "Circular import detected"; once a file was
\* asked for while it was open (under whatever spelling of its path) the call
\* never returns text and can only end with that failure; the chain where the
\* text imports n and n imports the plain file s returns "x hi y".
C1_CircularImportFails ==
  /\ hit => Circular
  /\ alias => ~Returned /\ (Threw => Circular)
  /\ (scenario.text = T_chain /\ scenario.stack = <<>> /\ outcome.state # "none")
        => Returned /\ Chars(outcome.text) = T_chain_expanded

\* a cycle of three files was detected: the chain names x, y, z and x again
C1_Witness == hit /\ Circular /\ Len(outcome.err.chain) = 4

\* C2: "Circular import detected" is raised only for a path that is open on
\* the branch of the failing invocation, the stack of every active invocation
\* is the stack of the call followed by the files open below it, whatever
\* siblings were expanded before, and a text with two imports of s, or with
\* imports of p and q that both import s, returns one copy of s for each.
C2_SiblingImportsIndependent ==
  /\ Circular => hit
  /\ \A i \in 1..Depth :
       frames[i].stack = scenario.stack \o [j \in 1..(i - 1) |-> frames[j + 1].file]
  /\ (scenario.text \in {T_siblings, T_common_third} /\ outcome.state # "none")
        => Returned /\ Chars(outcome.text) = T_twice_hi

\* both p and q imported s and the call returned
C2_Witness ==
  /\ Returned /\ scenario.text = T_common_third /\ Chars(outcome.text) = T_twice_hi
  /\ Cardinality({i \in 1..Len(io) : io[i].op = "text" /\ io[i].arg = <<"/", "d", "/", "s">>}) = 2

\* C3: the nesting depth never exceeds the number of distinct resolved paths
\* that were loaded, and every call of expandImports eventually returns or
\* fails.
C3_ExpansionTerminates ==
  /\ [](Depth <= Cardinality(seen) + 1)
  /\ (mpc = "expanding") ~> (outcome.state # "none")

\* three files are open below the top-level text
C3_Witness == Depth = 4 /\ Cardinality(seen) = 3

\* the span [from, to] of t consists of consecutive characters of one scanned
\* source (the top-level text or one file)
Written(t, from, to) ==
  \A j \in from..to : t[j].o # 0 /\ (j > from => t[j].o = t[j - 1].o + 1)

\* a directive of the kind occupies [from, to] of t
DirectiveAt(kind, t, from, to) ==
  /\ PatternAt(kind, Chars(t), from) # <<>>
  /\ to = MatchEnd(kind, PatternAt(kind, Chars(t), from))

\* C4 (as stated): a returned text holds no directive of any of the three
\* forms.
C4_NoDirectiveRemains == Returned => ~hasImports(Chars(outcome.text))

\* C4 (amended): a returned text holds no directive that was written as such
\* in the top-level text or in an imported file; what remains came out of a
\* URL body or a command output, or was put together by a replacement.
C4_WrittenDirectivesExpanded ==
  Returned =>
    \A kind \in {"file", "url", "cmd"} :
      \A from \in 1..Len(outcome.text) : \A to \in from..Len(outcome.text) :
        DirectiveAt(kind, outcome.text, from, to) => ~Written(outcome.text, from, to)

\* directives were expanded and the returned text still holds one
C4_Witness == Returned /\ Len(io) >= 3 /\ hasImports(Chars(outcome.text))

\* C5: for a text without directive (plain words, an e-mail address) the call
\* returns the text as it is, whatever the directory and the stack, and
\* neither reads a file nor fetches nor runs a command.
C5_NoDirectiveIdentity ==
  scenario.text \in {T_plain, T_email} =>
    /\ ~hasImports(scenario.text)
    /\ io = <<>>
    /\ ~Threw
    /\ Returned => outcome.text = rawBody
    /\ mpc \in {"post", "exit", "ran"} => expandedBody = rawBody

\* the text with the e-mail address came back from a call with a relative
\* directory and a stack that is not empty
C5_Witness ==
  /\ Returned /\ scenario.text = T_email /\ scenario.stack # <<>>
  /\ ~StartsWith(scenario.where, <<"/">>)

\* the directory the top-level call was given
TopDir == IF scenario.mode = "main" THEN fileDir ELSE scenario.where

\* C6: every operation asked by the invocation that expands an imported file
\* uses the directory of that file: a relative import is resolved against it
\* and a command runs in it; the top-level invocation uses the directory it
\* was called with.
C6_OwnDirectoryIsBase ==
  \A i \in 1..Len(io) :
    LET e == io[i]
        base == IF e.by = NULL THEN TopDir ELSE dirname(e.by) IN
    /\ e.dir = base
    /\ (e.op \in {"exists", "text"} /\ StartsWith(e.payload, <<".">>))
         => e.arg = resolve(base, e.payload)

\* a command of a file in /d/t ran in /d/t while the call was given /d
C6_Witness ==
  \E i \in 1..Len(io) :
    /\ io[i].op = "spawn" /\ io[i].by # NULL
    /\ io[i].dir = P_d_t /\ TopDir = P_d /\ cwd # P_d_t

FatalKind(op) ==
  CASE op = "exists" -> {"Import not found"}
    [] op = "fetch" -> {"unsupported content type", "Failed to fetch URL", "HTTP"}
    [] op = "spawn" -> {"Command failed"}
    [] OTHER -> {}

\* C7: an operation that fails at any depth, and a circular import, make the
\* top-level call fail with that condition: no invocation stays active, no
\* text is returned then or later, main reports the failure and reaches
\* neither the steps after the expansion nor the command.
C7_FatalAbortsAll ==
  /\ [](/\ \A i \in 1..Len(io) : ~io[i].ok => Threw /\ outcome.err.kind \in FatalKind(io[i].op)
        /\ hit => Circular
        /\ Threw => /\ frames = <<>> /\ outcome.text = <<>> /\ expandedBody = <<>>
                    /\ mpc \in {"catch", "exit1", "done"}
                    /\ scenario.mode = "main" => mpc \in {"catch", "exit1"}
                    /\ mpc = "exit1" => reported = outcome.err)
  /\ [][Threw => outcome' = outcome /\ mpc' \notin {"post", "ran", "exit"}]_vars

\* main reported a launch failure of a command of an imported file
C7_Witness ==
  /\ mpc = "exit1" /\ reported.kind = "Command failed"
  /\ io[Len(io)].by # NULL

\* C8 (as stated): a successful response with Content-Type text/html is
\* rejected with "unsupported content type".
C8_HtmlRejected ==
  \A i \in 1..Len(fetched) :
    LET f == fetched[i] IN
    (f.resp.net /\ ResponseOk(f.resp) /\ f.resp.contentType = CT_html)
      => ~f.out.ok /\ f.out.err.kind = "unsupported content type"

\* the Content-Type values of Responses whose base type is in the allowlist
AllowlistedHeaders == {CT_plain_params, S_application_json}

C10_HttpStatusFails ==
  \A i \in 1..Len(fetched) :
    LET f == fetched[i] IN
    (f.resp.net /\ ~ResponseOk(f.resp)) =>
      /\ ~f.out.ok /\ f.after = <<>>
      /\ f.out.err.status = f.resp.status
      /\ f.out.err.kind \in {"Failed to fetch URL", "HTTP"}
      /\ Threw /\ outcome.err = f.out.err

\* a 404 whose header and body would have been admitted was refused
C10_Witness ==
  \E i \in 1..Len(fetched) :
    /\ fetched[i].resp.status = 404 /\ fetched[i].resp.contentType = S_application_json
    /\ fetched[i].resp.body = <<"{", "}">> /\ ~fetched[i].out.ok

T_two_commands == <<"!", Tick, "a", Tick, " ", "!", Tick, "b", Tick>>

\* C11: the replacement of a launched command is made of its two trimmed
\* streams: the error output, a newline and the standard output when both
\* are non-empty, the non-empty one when there is one, the empty string when
\* there is none; it is spliced in place of the directive, and two commands
\* with the same trimmed streams get the same replacement whatever the
\* command and its exit status.
C11_CommandReplacement ==
  /\ \A i \in 1..Len(spawned) :
       LET r == spawned[i]
           o == Trim(r.res.stdout)
           e == Trim(r.res.stderr) IN
       r.res.launch =>
         /\ r.out.ok
         /\ (o # <<>> /\ e # <<>>) => r.out.text = e \o <<"\n">> \o o
         /\ (o # <<>> /\ e = <<>>) => r.out.text = o
         /\ (o = <<>> /\ e # <<>>) => r.out.text = e
         /\ (o = <<>> /\ e = <<>>) => r.out.text = <<>>
         /\ Chars(r.after) = Chars(SubSeq(r.before, 1, r.at - 1)) \o r.out.text
                               \o Chars(SubSeq(r.before, r.at + r.full, Len(r.before)))
  /\ \A i, j \in 1..Len(spawned) :
       (/\ spawned[i].res.launch /\ spawned[j].res.launch
        /\ Trim(spawned[i].res.stdout) = Trim(spawned[j].res.stdout)
        /\ Trim(spawned[i].res.stderr) = Trim(spawned[j].res.stderr))
         => spawned[i].out.text = spawned[j].out.text

\* a command that wrote "o" and a newline to its output and "e" to its error
\* output was replaced by "e", a newline and "o"
C11_Witness ==
  \E i \in 1..Len(spawned) :
    /\ spawned[i].res.stdout = <<"o", "\n">> /\ spawned[i].res.stderr = <<"e">>
    /\ spawned[i].out.text = <<"e", "\n", "o">>

\* C12: a command that was launched never fails the expansion, whatever its
\* exit status: its output is spliced in and, when directives are left, the
\* invocation goes on with them (unless the budget monitor refuses the
\* output); the call fails with "Command failed" only
\* for a command that could not be launched, and then it does.
C12_ExitStatusNotFatal ==
  /\ \A i \in 1..Len(spawned) :
       LET r == spawned[i] IN
       /\ r.res.launch =>
            /\ r.out.ok
            /\ r.after = Splice(r.before, r.at, r.full, Ext(r.out.text))
            /\ (i = Len(spawned) /\ r.left > 0 /\ ~TokenLimit) =>
                 /\ ~Threw /\ ~Returned /\ Depth >= 1
                 /\ Top.pc = "cmds" /\ Len(Top.todo) = r.left /\ Top.result = r.after
       /\ ~r.res.launch =>
            /\ i = Len(spawned)
            /\ Threw /\ outcome.err.kind = "Command failed"
            /\ outcome.err.payload = r.command
  /\ (Threw /\ outcome.err.kind = "Command failed") =>
       (spawned # <<>> /\ ~spawned[Len(spawned)].res.launch)

\* the call returned after two commands, the first of which had exited with
\* status 1
C12_Witness ==
  /\ Returned /\ scenario.text = T_two_commands /\ Len(spawned) = 2
  /\ spawned[1].res.exitCode = 1 /\ spawned[1].res.launch

T_glob_warn == <<"@", ".", "/", "v", "/", "*", " ", "!", Tick, "c", Tick>>
T_glob_max == <<"@", ".", "/", "e", "/", "*", " ", "!", Tick, "c", Tick>>
T_singles_warn == <<"@", ".", "/", "v", "/", "a", " ", "@", ".", "/", "v", "/", "b", " ", "@", ".", "/", "e", "/", "a">>
T_singles_max == <<"@", ".", "/", "e", "/", "a", " ", "@", ".", "/", "e", "/", "b", " ", "@", ".", "/", "v", "/", "a">>
T_glob_url == <<"@", ".", "/", "e", "/", "*", " ", "@", "h", "t", "t", "p", ":", "/", "/", "u">>
T_glob_order == <<"@", ".", "/", "o", "/", "*">>
T_glob_cycle == <<"@", ".", "/", "c", "/", "*">>

RECURSIVE Admitted(_)
Admitted(i) == IF i = 0 THEN 0 ELSE budget[i].chars + Admitted(i - 1)

IsLexOrdered(paths) == \A i \in 1..(Len(paths) - 1) : LexLess(paths[i], paths[i + 1])

T_email_url == <<"a", "@", "b", ".", "c", " ", "@", "h", "t", "t", "p", ":", "/", "/", "u">>
T_email_file == <<"a", "@", "b", " ", "@", ".", "/", "j">>

Letters ==
  {"a", "b", "c", "d", "e", "f", "g", "h", "i", "j", "k", "l", "m",
   "n", "o", "p", "q", "r", "s", "t", "u", "v", "w", "x", "y", "z"}

\* [from, to] of s is a plain e-mail address: a word of its own, one at sign
\* in it, letters and dots around it, a letter first and a letter after the
\* at sign
EmailAt(s, from, to) ==
  /\ from = 1 \/ IsWs(s[from - 1])
  /\ to = Len(s) \/ IsWs(s[to + 1])
  /\ s[from] \in Letters
  /\ \E i \in (from + 1)..(to - 1) :
       /\ s[i] = "@"
       /\ s[i + 1] \in Letters
       /\ \A j \in (from..to) \ {i} : s[j] \in Letters \cup {"."}

\* every at sign of s belongs to a plain e-mail address
OnlyEmails(s) ==
  \A i \in 1..Len(s) :
    s[i] = "@" => \E from \in 1..i, to \in i..Len(s) : EmailAt(s, from, to)

\* the e-mail addresses written in the source src are in t, cell by cell
EmailsKept(src, t) ==
  \A from \in 1..Len(src), to \in 1..Len(src) :
    EmailAt(Chars(src), from, to) =>
      \E k \in 0..(Len(t) - (to - from + 1)) :
        SubSeq(t, k + 1, k + to - from + 1) = SubSeq(src, from, to)

\* C17: no pattern matches at the at sign of a plain e-mail address; for a
\* text whose at signs all belong to e-mail addresses (and that holds no
\* command) hasImports is false and the call touches nothing; and a returned
\* text holds every e-mail address that was written in the top-level text or
\* in an imported file, also when directives next to it were expanded.
C17_EmailsUntouched ==
  /\ \A from \in 1..Len(scenario.text), to \in 1..Len(scenario.text) :
       EmailAt(scenario.text, from, to) =>
         \A i \in from..to : \A kind \in {"file", "url", "cmd"} :
           PatternAt(kind, scenario.text, i) = <<>>
  /\ (OnlyEmails(scenario.text) /\ ~Test("cmd", scenario.text)) =>
       /\ ~hasImports(scenario.text)
       /\ io = <<>>
       /\ Returned => outcome.text = rawBody
  /\ Returned =>
       /\ EmailsKept(rawBody, outcome.text)
       /\ \A i \in 1..Len(io) :
            io[i].op = "text" => EmailsKept(FileText(io[i].arg), outcome.text)

\* the URL next to the address was fetched and its body spliced in, the
\* address is still there
C17_Witness ==
  /\ Returned /\ scenario.text = T_email_url
  /\ Chars(outcome.text) = <<"a", "@", "b", ".", "c", " ", "#", "h">>

\* the four ways a file path may start
PathPrefixes == {<<"~", "/">>, <<".", "/">>, <<".", ".", "/">>, <<"/">>}

\* an at sign at i, then one of the four prefixes, then at least one character
\* that is not whitespace
PrefixedPathAt(s, i) ==
  /\ s[i] = "@"
  /\ \E p \in PathPrefixes :
       /\ HasAt(s, i + 1, p)
       /\ i + Len(p) + 1 <= Len(s)
       /\ ~IsWs(s[i + Len(p) + 1])

\* C18 (as stated): the scanner finds a file import at an at sign exactly
\* when one of "~/", "./", "../", "/" and a path follow it, and
\* processFileImport is never asked for a payload that starts otherwise
\* (".name", "~name", "word").
C18_OnlyPrefixedPaths ==
  /\ \A i \in 1..Len(scenario.text) :
       (PatternAt("file", scenario.text, i) # <<>>) <=> PrefixedPathAt(scenario.text, i)
  /\ \A k \in 1..Len(io) :
       io[k].op = "exists" => \E p \in PathPrefixes : StartsWith(io[k].payload, p)

P_home_a == <<"/", "h", "/", "a">>

\* the text scanned by the invocation that logged the entry e
ScannedBy(e) == IF e.by = NULL THEN scenario.text ELSE FS[FileIndex(e.by)].content

\* C19: when the next file import resolves to a path that does not exist the
\* step fails the call with "Import not found", and that failure carries the
\* payload as it is written after the at sign and the absolute path it was
\* resolved to; a path is read only right after its existence check said
\* yes, and a path whose check said no is never read.
C19_ImportNotFound ==
  /\ [][(FileReady /\ FileIndex(NextResolved) = 0) =>
          /\ outcome'.state = "threw"
          /\ outcome'.err.kind = "Import not found"
          /\ outcome'.err.payload = NextPayload
          /\ outcome'.err.resolved = NextResolved]_vars
  /\ [](\A k \in 1..Len(io) :
          LET e == io[k] IN
          /\ (e.op = "exists" /\ ~e.ok) =>
               /\ k = Len(io)
               /\ Threw /\ outcome.err.kind = "Import not found"
               /\ outcome.err.payload = e.payload
               /\ Includes(ScannedBy(e), <<"@">> \o e.payload)
               /\ outcome.err.resolved = e.arg
               /\ e.arg = resolveImportPath(e.payload, e.dir)
               /\ StartsWith(e.arg, <<"/">>)
               /\ FileIndex(e.arg) = 0
               /\ \A j \in 1..Len(io) : io[j].op = "text" => io[j].arg # e.arg
          /\ e.op = "text" =>
               /\ k > 1
               /\ io[k - 1].op = "exists" /\ io[k - 1].ok /\ io[k - 1].arg = e.arg)
  /\ []((Threw /\ outcome.err.kind = "Import not found") =>
          /\ io # <<>>
          /\ io[Len(io)].op = "exists" /\ ~io[Len(io)].ok)

\* the import of ~/a failed: the failure names ~/a and /h/a
C19_Witness ==
  /\ Threw /\ outcome.err.kind = "Import not found"
  /\ outcome.err.payload = <<"~", "/", "a">> /\ outcome.err.resolved = P_home_a

P_d_s == <<"/", "d", "/", "s">>
P_d_a == <<"/", "d", "/", "a">>
P_d_b == <<"/", "d", "/", "b">>

\* the paths open on the branch of the innermost invocation, outermost first:
\* the stack the call was given, then the files entered below it
OpenOnBranch == scenario.stack \o [j \in 1..(Depth - 1) |-> frames[j + 1].file]

Times(path, chain) == Cardinality({i \in 1..Len(chain) : chain[i] = path})

\* C20: the step that finds the next import open on the branch fails with a
\* chain made of the paths open on the branch, outermost first, followed by
\* the re-entered path; in the chain of a "Circular import detected" failure
\* the last path is the re-entered one and is there twice, every other path
\* once.
C20_FullChain ==
  /\ [][(FileReady /\ stackHas(Top.stack, NextResolved)) =>
          /\ outcome'.state = "threw"
          /\ outcome'.err.kind = "Circular import detected"
          /\ outcome'.err.chain = Append(OpenOnBranch, NextResolved)]_vars
  /\ [](Circular =>
          LET chain == outcome.err.chain IN
          /\ Len(chain) >= 2
          /\ chain[Len(chain)] = outcome.err.resolved
          /\ \A i \in 1..Len(chain) :
               Times(chain[i], chain) = IF chain[i] = outcome.err.resolved THEN 2 ELSE 1)

\* a was re-entered through b in a call whose stack held s: the chain is
\* s, a, b, a
C20_Witness == Circular /\ outcome.err.chain = <<P_d_s, P_d_a, P_d_b, P_d_a>>

P_d_x == <<"/", "d", "/", "x">>
P_d_y == <<"/", "d", "/", "y">>
P_d_z == <<"/", "d", "/", "z">>

\* the files open from the top-level text down to the i-th invocation
OpenDownTo(i) == [j \in 1..(i - 1) |-> frames[j + 1].file]

\* C21: the stack of every active invocation is the stack the top-level call
\* was given (empty when main calls) followed by the paths of the files open
\* from the top-level text down to the text being expanded, outermost first;
\* these paths are absolute and no path is twice in a stack.
C21_StackIsOpenBranch ==
  \A i \in 1..Depth :
    LET stack == frames[i].stack IN
    /\ stack = scenario.stack \o OpenDownTo(i)
    /\ scenario.stack = <<>> => stack = OpenDownTo(i)
    /\ \A j \in 1..(i - 1) : StartsWith(OpenDownTo(i)[j], <<"/">>)
    /\ \A j, k \in 1..Len(stack) : stack[j] = stack[k] => j = k

\* x, y and z are open below the top-level text of a call with an empty stack
C21_Witness ==
  /\ scenario.stack = <<>> /\ Depth = 4
  /\ Top.stack = <<P_d_x, P_d_y, P_d_z>>

T_file_url_command ==
  <<"@", ".", "/", "s", " ", "@", "h", "t", "t", "p", ":", "/", "/", "u", " ", "!", Tick, "c", Tick>>

PassRank(pass) == CASE pass = "files" -> 1 [] pass = "urls" -> 2 [] pass = "cmds" -> 3

PassKind(pass) == CASE pass = "files" -> "file" [] pass = "urls" -> "url" [] pass = "cmds" -> "cmd"

\* the replacements the invocation f made in the pass
DoneIn(f, pass) == {k \in 1..Len(f.done) : f.done[k].pass = pass}

\* the text of the invocation f when the passes up to pass were over
TextAfter(f, pass) ==
  LET ks == {k \in 1..Len(f.done) : PassRank(f.done[k].pass) <= PassRank(pass)} IN
  IF ks = {} THEN f.content ELSE f.done[Cardinality(ks)].after

\* the directives the scan of the pass found in the text it read
Found(f, pass) == ExecAll(PassKind(pass), Chars(f.scanned[pass]))

\* C22: in every invocation the replacements are made pass after pass, file
\* imports, then URL imports, then commands; while a URL is fetched every
\* file import of that text is replaced, while a command runs every URL
\* import is replaced too; the scan for URL imports read the text as the
\* file pass left it and the scan for commands the text as the URL pass left
\* it; and a fetch is only made by an invocation in its URL pass, a command
\* only run by an invocation in its command pass.
C22_PassOrder ==
  /\ [](\A i \in 1..Depth :
          LET f == frames[i] IN
          /\ \A k \in 1..Len(f.done) :
               /\ PassRank(f.done[k].pass) <= PassRank(f.pc)
               /\ k > 1 => PassRank(f.done[k - 1].pass) <= PassRank(f.done[k].pass)
               /\ \E m \in 1..Len(Found(f, f.done[k].pass)) :
                    LET d == Found(f, f.done[k].pass)[m] IN
                    /\ d.index = f.done[k].index /\ d.full = f.done[k].full
                    /\ d.payload = f.done[k].payload
          /\ f.pc \in {"urls", "cmds"} =>
               /\ Cardinality(DoneIn(f, "files")) = Len(Found(f, "files"))
               /\ f.scanned.urls = TextAfter(f, "files")
          /\ f.pc = "cmds" =>
               /\ Cardinality(DoneIn(f, "urls")) = Len(Found(f, "urls"))
               /\ f.scanned.cmds = TextAfter(f, "urls"))
  /\ [][/\ Len(fetched') > Len(fetched) => Top.pc = "urls"
        /\ Len(spawned') > Len(spawned) => Top.pc = "cmds"]_vars

\* the top-level text with a file import, a URL import and a command is in
\* its command pass: file and URL are replaced, the command scan has read a
\* text that is not the original one and found the command
C22_Witness ==
  /\ scenario.text = T_file_url_command /\ Depth = 1 /\ Top.pc = "cmds"
  /\ Len(Top.done) = 2 /\ Top.scanned.cmds # Top.content
  /\ Len(Top.todo) = 1 /\ Len(io) = 3

\* the directives of the text of f in the order they are taken up in the
\* current pass: those replaced, then those to do
TakenUp(f) ==
  [k \in 1..Cardinality(DoneIn(f, f.pc)) |->
     LET d == f.done[Len(f.done) - Cardinality(DoneIn(f, f.pc)) + k] IN
     [index |-> d.index, full |-> d.full, payload |-> d.payload]] \o f.todo

\* the operation e was asked for the directive with the payload of the text
\* of f (for a glob pattern: for one of the files it matched)
AskedFor(e, payload) ==
  \/ e.payload = payload
  \/ IsGlobPattern(payload) /\ e.op \in {"exists", "text"}

\* C23: in every pass of every invocation the directives are taken up in
\* the reverse order of the scan, so each starts before the one taken up
\* before it; an invocation that waits for a nested one waits in its file
\* pass for the first directive left to do; and the operations an invocation
\* asks between two replacements all belong to the directive replaced
\* second, those after the last replacement to the first directive left.
C23_OneAtATimeDescending ==
  \A i \in 1..Depth :
    LET f == frames[i] IN
    /\ TakenUp(f) = Reverse(Found(f, f.pc))
    /\ \A k \in 2..Len(TakenUp(f)) :
         TakenUp(f)[k].index + TakenUp(f)[k].full <= TakenUp(f)[k - 1].index
    /\ i < Depth =>
         /\ f.pc = "files" /\ f.todo # <<>>
         /\ frames[i + 1].file =
              IF f.inGlob THEN f.batch[Len(f.acc) + 1]
              ELSE resolveImportPath(Head(f.todo).payload, f.dir)
    /\ \A k \in 1..Len(f.done) :
         /\ f.done[k].ops <= Len(io)
         /\ k > 1 =>
              /\ f.done[k - 1].ops < f.done[k].ops
              /\ \A e \in (f.done[k - 1].ops + 1)..f.done[k].ops :
                   io[e].by = f.file => AskedFor(io[e], f.done[k].payload)
              /\ f.done[k].pass # "files" => f.done[k].ops = f.done[k - 1].ops + 1
    /\ (f.done # <<>> /\ f.todo # <<>>) =>
         \A e \in (f.done[Len(f.done)].ops + 1)..Len(io) :
           io[e].by = f.file => AskedFor(io[e], Head(f.todo).payload)

\* p and q, both importing s, are replaced in the top-level text: q, written
\* second, first, after its two reads and the two reads of s
C23_Witness ==
  /\ scenario.text = T_common_third /\ Depth = 1 /\ Top.pc = "files"
  /\ Len(Top.done) = 2 /\ Top.todo = <<>>
  /\ Top.done[1].index = 6 /\ Top.done[1].ops = 4
  /\ Top.done[2].index = 1 /\ Top.done[2].ops = 8

\* the replacements the invocation f made in the pass, as a set of records
Replacements(f, pass) == {f.done[k] : k \in DoneIn(f, pass)}

\* the text snap from pos on, where each directive of found (from left to
\* right) that has a replacement in ds is replaced by it and everything else
\* is copied
RECURSIVE FoldFrom(_, _, _, _)
FoldFrom(snap, pos, found, ds) ==
  IF found = <<>> THEN SubSeq(snap, pos, Len(snap))
  ELSE LET m == Head(found)
           span == SubSeq(snap, m.index, m.index + m.full - 1)
           put == IF \E d \in ds : d.index = m.index
                  THEN (CHOOSE d \in ds : d.index = m.index).repl
                  ELSE span IN
       SubSeq(snap, pos, m.index - 1) \o put
         \o FoldFrom(snap, m.index + m.full, Tail(found), ds)

\* the segment fold of the pass of f over the text its scan read
SegmentFold(f, pass) == FoldFrom(f.scanned[pass], 1, Found(f, pass), Replacements(f, pass))

\* C24: in every invocation, whenever a directive is replaced the text still
\* holds, at the offset the scan recorded, the very characters the scan
\* matched, and everything before them is as the scan read it; at every
\* moment of a pass the text is the text the scan read with the directives
\* replaced so far replaced by their replacements and every other character
\* copied in order; and the text a pass leaves is that fold with every
\* directive replaced.
C24_SpliceIsSegmentFold ==
  \A i \in 1..Depth :
    LET f == frames[i] IN
    /\ \A k \in 1..Len(f.done) :
         LET d == f.done[k]
             snap == f.scanned[d.pass] IN
         /\ d.index + d.full - 1 <= Len(d.before)
         /\ SubSeq(d.before, 1, d.index + d.full - 1) = SubSeq(snap, 1, d.index + d.full - 1)
         /\ d.after = Splice(d.before, d.index, d.full, d.repl)
    /\ f.result = SegmentFold(f, f.pc)
    /\ \A pass \in {"files", "urls"} :
         PassRank(pass) < PassRank(f.pc) =>
           /\ Cardinality(DoneIn(f, pass)) = Len(Found(f, pass))
           /\ TextAfter(f, pass) = SegmentFold(f, pass)

\* both commands of a text are replaced, the second by nothing, the first by
\* an output longer than the directive
C24_Witness ==
  /\ scenario.text = T_two_commands /\ Depth = 1 /\ Top.pc = "cmds" /\ Top.todo = <<>>
  /\ Len(Top.done) = 2
  /\ Top.done[1].repl = <<>>
  /\ Len(Top.done[2].repl) > Top.done[2].full

\* what expandImports(content, dir, stack) yields when no other call runs,
\* with the server's answer and the command's output fixed: the three passes
\* written as functions of the text
RECURSIVE ExpandAlone(_, _, _), FilesAlone(_, _, _, _), UrlsAlone(_, _), CommandsAlone(_, _)
FilesAlone(result, todo, dir, stack) ==
  IF todo = <<>> THEN Resolved(result)
  ELSE Once(resolveImportPath(Head(todo).payload, dir), LAMBDA resolvedPath :
    IF stackHas(stack, resolvedPath) THEN Rejected(CircularImport(stack, resolvedPath))
    ELSE IF FileIndex(resolvedPath) = 0
    THEN Rejected(ImportNotFound(Head(todo).payload, resolvedPath))
    ELSE Once(ExpandAlone(FileText(resolvedPath), nestedDir(resolvedPath, dir),
                          newStack(stack, resolvedPath)), LAMBDA sub :
      IF ~sub.ok THEN sub
      ELSE FilesAlone(Splice(result, Head(todo).index, Head(todo).full, sub.text),
                      Tail(todo), dir, stack)))

UrlsAlone(result, todo) ==
  IF todo = <<>> THEN Resolved(result)
  ELSE Once(processUrlImport(Head(todo).payload, FixedResponse(Head(todo).payload)),
            LAMBDA out :
    IF ~out.ok THEN out
    ELSE UrlsAlone(Splice(result, Head(todo).index, Head(todo).full, Ext(out.text)),
                   Tail(todo)))

CommandsAlone(result, todo) ==
  IF todo = <<>> THEN Resolved(result)
  ELSE Once(processCommandInline(Head(todo).payload, FixedSpawn(Head(todo).payload)),
            LAMBDA out :
    IF ~out.ok THEN out
    ELSE CommandsAlone(Splice(result, Head(todo).index, Head(todo).full, Ext(out.text)),
                       Tail(todo)))

ExpandAlone(content, dir, stack) ==
  Once(FilesAlone(content, Reverse(ExecAll("file", Chars(content))), dir, stack),
       LAMBDA a :
    IF ~a.ok THEN a
    ELSE Once(UrlsAlone(a.text, Reverse(ExecAll("url", Chars(a.text)))), LAMBDA b :
      IF ~b.ok THEN b
      ELSE CommandsAlone(b.text, Reverse(ExecAll("cmd", Chars(b.text))))))

\* the call has ended with what it yields when it runs alone
AsAlone(call) ==
  /\ (call.kind = "has" /\ call.state = "answered") => call.value = hasImports(call.text)
  /\ (call.kind = "expand" /\ call.state \in {"returned", "threw"}) =>
       \E a \in {ExpandAlone(Cells(call.text, OriginBase(0)), ConcDir, <<>>)} :
         /\ a.ok <=> call.state = "returned"
         /\ call.out = a.text
         /\ call.err = a.err

\* C25: of two calls whose steps between awaits are taken in any order,
\* wherever earlier calls left the cursors, each ends with what it yields
\* alone; every scan finds what a scan with its own cursor at 0 finds; and a
\* step of one call leaves the other call as it is.
C25_CallsIndependent ==
  /\ [](\A t \in 1..2 :
          /\ AsAlone(conc.task[t])
          /\ \A k \in 1..Len(conc.task[t].scans) :
               conc.task[t].scans[k].got =
                 ExecAll(conc.task[t].scans[k].kind, conc.task[t].scans[k].text))
  /\ [][\E t \in 1..2 : conc'.task[t] = conc.task[t]]_vars

\* two expandImports calls of the text with the three kinds of directive
\* have returned; their steps were mixed and a scan started with a cursor
\* that was not at 0
C25_Witness ==
  /\ \A t \in 1..2 :
       /\ conc.task[t].kind = "expand" /\ conc.task[t].state = "returned"
       /\ Chars(conc.task[t].out) = <<"h", "i", " ", "#", "h", " ", "o">>
  /\ conc.mixed /\ conc.stale

T_url == <<"@", "h", "t", "t", "p", ":", "/", "/", "u">>

\* the place in io of the j-th operation of the kind op
IoIndexOf(op, j) ==
  CHOOSE k \in 1..Len(io) :
    io[k].op = op /\ Cardinality({i \in 1..k : io[i].op = op}) = j

\* C26: when a call returns, every command inline in the body of a URL it
\* admitted was run after the fetch, by the invocation that fetched and in
\* its directory; the directive stood in the text as characters that were
\* not written in any scanned source, and the output took its place.
C26_RemoteCommandRuns ==
  Returned =>
    \A j \in 1..Len(fetched) :
      fetched[j].out.ok =>
        \A m \in 1..Len(ExecAll("cmd", fetched[j].out.text)) :
          LET d == ExecAll("cmd", fetched[j].out.text)[m]
              k == IoIndexOf("fetch", j) IN
          \E n \in 1..Len(spawned) :
            LET e == io[IoIndexOf("spawn", n)]
                r == spawned[n] IN
            /\ IoIndexOf("spawn", n) > k
            /\ r.command = d.payload
            /\ e.dir = io[k].dir /\ e.by = io[k].by
            /\ \A c \in r.at..(r.at + r.full - 1) : r.before[c].o = 0
            /\ r.out.ok
            /\ r.after = Splice(r.before, r.at, r.full, Ext(r.out.text))

\* the text is one URL import, the body is a command inline: the command
\* was run and the call returned its output
C26_Witness ==
  /\ Returned /\ scenario.text = T_url /\ scenario.mode = "main"
  /\ Len(fetched) = 1 /\ fetched[1].out.text = <<"!", Tick, "c", Tick>>
  /\ Len(spawned) = 1 /\ spawned[1].command = <<"c">>
  /\ io[2].dir = P_d
  /\ Chars(outcome.text) = <<"o">>

T_nested_command == <<"@", ".", "/", "t", "/", "e">>

\* the pass before
PassBefore(pass) == IF pass = "cmds" THEN "urls" ELSE "files"

\* the characters of the directive the replacement d took away
DirectiveOf(d) == SubSeq(d.before, d.index, d.index + d.full - 1)

\* C27: a file import that is expanded was written in the text the
\* invocation was given, so none that arrived in a body or an output is ever
\* expanded; a URL import or a command that is expanded stood in the text
\* the pass scanned when it began, so nothing a pass puts in is taken up by
\* that pass; and the scans for URL imports and commands of an invocation
\* find every directive of the text the pass before left, whatever its
\* characters came from, and the invocation performs it in its own
\* directory: the directory of the call for the top-level text, the
\* directory of the file for an imported one.
C27_DepthMatters ==
  \A i \in 1..Depth :
    LET f == frames[i] IN
    /\ f.dir = IF i = 1 THEN TopDir ELSE dirname(f.file)
    /\ \A k \in 1..Len(f.done) :
         LET d == f.done[k] IN
         /\ d.pass = "files" =>
              /\ DirectiveOf(d) = SubSeq(f.content, d.index, d.index + d.full - 1)
              /\ \A c \in 1..d.full : DirectiveOf(d)[c].o # 0
         /\ d.pass # "files" =>
              /\ DirectiveOf(d) = SubSeq(f.scanned[d.pass], d.index, d.index + d.full - 1)
              /\ io[d.ops].op = (IF d.pass = "urls" THEN "fetch" ELSE "spawn")
              /\ io[d.ops].dir = f.dir /\ io[d.ops].by = f.file
    /\ f.pc # "files" =>
         /\ Found(f, f.pc) = ExecAll(PassKind(f.pc), Chars(TextAfter(f, PassBefore(f.pc))))
         /\ Cardinality(DoneIn(f, f.pc)) + Len(f.todo) = Len(Found(f, f.pc))

\* the imported file /d/t/e ran its command in /d/t and the output was a
\* command inline again: the importing call ran it in /d, so its result is
\* not the text the expansion of the file's content returned
C27_Witness ==
  /\ Returned /\ scenario.text = T_nested_command /\ scenario.mode = "api"
  /\ Len(spawned) = 2
  /\ io[IoIndexOf("spawn", 1)].dir = P_d_t /\ io[IoIndexOf("spawn", 1)].by # NULL
  /\ spawned[1].out.text = <<"!", Tick, "c", Tick>>
  /\ io[IoIndexOf("spawn", 2)].dir = P_d /\ io[IoIndexOf("spawn", 2)].by = NULL
  /\ \A c \in spawned[2].at..(spawned[2].at + spawned[2].full - 1) : spawned[2].before[c].o = 0
  /\ Chars(spawned[1].after) = <<"i", "n", " ", "!", Tick, "c", Tick>>
  /\ Chars(outcome.text) = <<"i", "n", " ", "o">>

T_file_file_command == <<"@", ".", "/", "s", " ", "@", ".", "/", "k", " ", "!", Tick, "b", Tick>>

\* the operation is a fetch or the run of a command
Acts(e) == e.op \in {"fetch", "spawn"}

\* C28: while an imported file is expanded every invocation above it is in
\* its file pass, waiting for that import: it has scanned for neither URL
\* imports nor commands and its text before the import is as it was
\* written, so no file import positioned earlier has been loaded; each
\* fetch and each command of an imported file is performed in such a state;
\* and once the top-level text performs its first fetch or command, every
\* later operation is a fetch or a command of the top-level text.
C28_NestedActsInFilePass ==
  /\ [](\A i \in 1..(Depth - 1) :
          LET f == frames[i] IN
          /\ f.pc = "files" /\ f.todo # <<>>
          /\ f.scanned.urls = <<>> /\ f.scanned.cmds = <<>>
          /\ SubSeq(f.result, 1, Head(f.todo).index - 1)
               = SubSeq(f.content, 1, Head(f.todo).index - 1)
          /\ \A m \in 2..Len(f.todo) :
               f.todo[m].index + f.todo[m].full <= Head(f.todo).index)
  /\ [](\A k \in 1..Len(io) : \A l \in (k + 1)..Len(io) :
          (Acts(io[k]) /\ io[k].by = NULL) => (Acts(io[l]) /\ io[l].by = NULL))
  /\ [][\A n \in (Len(io) + 1)..Len(io') :
          (Acts(io'[n]) /\ io'[n].by # NULL) =>
            /\ Depth > 1 /\ Top.file = io'[n].by
            /\ \A i \in 1..(Depth - 1) : frames[i].pc = "files" /\ frames[i].todo # <<>>]_vars

\* "@./s @./k !`b`": the command of /d/k ran first, then /d/s, positioned
\* earlier, was loaded, then the command of the text itself ran
C28_Witness ==
  /\ Returned /\ scenario.text = T_file_file_command
  /\ Len(io) = 6
  /\ io[2].op = "text" /\ io[2].arg = <<"/", "d", "/", "k">>
  /\ io[3].op = "spawn" /\ io[3].payload = <<"c">> /\ io[3].by = <<"/", "d", "/", "k">>
  /\ io[4].op = "exists" /\ io[4].arg = P_d_s /\ io[5].op = "text"
  /\ io[6].op = "spawn" /\ io[6].payload = <<"b">> /\ io[6].by = NULL

T_missing_missing_command == <<"@", ".", "/", "m", " ", "@", ".", "/", "r", " ", "@", ".", "/", "k">>

\* the call fails in this step
Fails == outcome.state # "threw" /\ outcome'.state = "threw"

\* C29: when a call fails while an invocation is in its file pass, the file
\* import in progress at position p is the one that failed for that text:
\* the text before p is as it was written and the file imports positioned
\* before p are all still to do; the invocation has scanned for neither URL
\* imports nor commands and made no replacement of these kinds; every file
\* import positioned after p has been replaced by its complete expansion,
\* whose operations are all in the record; and a failure "Import not found"
\* raised by the invocation names the directive in progress, so of several
\* imports that cannot be found the last-positioned is reported.
C29_FailedFileImport ==
  [][Fails =>
       \A i \in 1..Depth :
         LET f == frames[i] IN
         f.pc = "files" =>
           /\ f.todo # <<>>
           /\ SubSeq(f.result, 1, Head(f.todo).index - 1)
                = SubSeq(f.content, 1, Head(f.todo).index - 1)
           /\ f.scanned.urls = <<>> /\ f.scanned.cmds = <<>>
           /\ DoneIn(f, "urls") = {} /\ DoneIn(f, "cmds") = {}
           /\ i = 1 => \A n \in 1..Len(io') : ~(Acts(io'[n]) /\ io'[n].by = NULL)
           /\ \A m \in 1..Len(Found(f, "files")) :
                LET d == Found(f, "files")[m] IN
                /\ d.index > Head(f.todo).index =>
                     \E k \in DoneIn(f, "files") :
                       /\ f.done[k].index = d.index /\ f.done[k].payload = d.payload
                       /\ f.done[k].ops <= Len(io)
                /\ d.index < Head(f.todo).index =>
                     /\ \E n \in 2..Len(f.todo) : f.todo[n] = d
                     /\ \A k \in DoneIn(f, "files") : f.done[k].index # d.index
           /\ (i = Depth /\ ~f.inGlob /\ outcome'.err.kind = "Import not found") =>
                /\ outcome'.err.payload = Head(f.todo).payload
                /\ \A n \in 1..Len(io) :
                     (io[n].by = f.file /\ io[n].op = "exists") => io[n].ok]_vars

\* "@./m @./r @./k": the command of /d/k was run, then ./r was not found
\* and is the failure reported; ./m was never asked for
C29_Witness ==
  /\ outcome.state = "threw" /\ scenario.text = T_missing_missing_command
  /\ outcome.err.kind = "Import not found" /\ outcome.err.payload = <<".", "/", "r">>
  /\ Len(spawned) = 1 /\ spawned[1].command = <<"c">>
  /\ Len(io) = 4 /\ io[3].op = "spawn" /\ io[4].op = "exists" /\ ~io[4].ok
  /\ \A n \in 1..Len(io) : io[n].payload # <<".", "/", "m">>

\* the text holds a match of one of the three directive patterns
HasMatch(s) == \E kind \in {"file", "url", "cmd"} : ExecAll(kind, s) # <<>>

\* C30: wherever earlier calls left the cursors and whatever the other call
\* does or has done, hasImports(s) answers true exactly when s holds a match
\* of one of the three patterns; and expandImports of a text without such a
\* match never fails, enters no nested invocation, asks for no operation
\* and returns the text as it was given.
C30_HasImportsAgrees ==
  [](\A t \in 1..2 :
       LET call == conc.task[t] IN
       /\ (call.kind = "has" /\ call.state = "answered") =>
            call.value = HasMatch(call.text)
       /\ (call.kind = "expand" /\ ~HasMatch(call.text)) =>
            /\ call.state # "threw"
            /\ call.ops = 0
            /\ Len(call.frames) <= 1
            /\ \A k \in 1..Len(call.frames) :
                 /\ call.frames[k].todo = <<>>
                 /\ call.frames[k].result = Cells(call.text, OriginBase(0))
            /\ \A k \in 1..Len(call.scans) : call.scans[k].got = <<>>
            /\ call.state = "returned" => call.out = Cells(call.text, OriginBase(0)))

\* with cursors left behind by earlier calls, hasImports("a@b c") answered
\* false and expandImports("a@b c") returned the text, asking for nothing
C30_Witness ==
  /\ conc.stale
  /\ conc.task[1].kind = "has" /\ conc.task[1].text = T_email
  /\ conc.task[1].state = "answered" /\ ~conc.task[1].value
  /\ conc.task[2].kind = "expand" /\ conc.task[2].text = T_email
  /\ conc.task[2].state = "returned" /\ Chars(conc.task[2].out) = T_email
  /\ conc.task[2].ops = 0 /\ Len(conc.task[2].scans) = 3

====
